---- MODULE Spec2Model ----
(***************************************************************************)
(* A model of the two stateful agents of the tutoring application:         *)
(*   - AggregationAgent (src/agents/aggregation_agent.py): the raw         *)
(*     interaction log, the per-student metrics map, the learning-pattern  *)
(*     histories and the hour buckets of the system metrics;               *)
(*   - TakeawayAgent (src/agents/takeaway_agent.py): the session           *)
(*     summaries, the per-student success patterns and the RAG store.      *)
(*                                                                         *)
(* The specifications share the variables:                                 *)
(*   Spec         one action per completed AggregationAgent call;          *)
(*   SpecStore    one action per completed TakeawayAgent call;             *)
(*   SpecUpsert   one action per _update_rag_store call;                   *)
(*   SpecSteps    the same mutations, one action per statement, with a     *)
(*                reader that may look at the structures between any two;  *)
(*   SpecBoth     calls of both agents in one behaviour;                   *)
(*   SpecQueries  the same, with the consumer-side queries;                *)
(*   SpecTurns    one analyze_session call per transcript over a pool of   *)
(*                turns;                                                   *)
(*   SpecFaq, SpecHealth, SpecProgress                                     *)
(*                _group_similar_questions, _assess_system_health and      *)
(*                _calculate_learning_progress on inputs of bounded size.  *)
(***************************************************************************)
EXTENDS Integers, Sequences, FiniteSets, TLC

VARIABLES
    now,               \* datetime.utcnow(), in half hours since start
    interaction_logs,  \* AggregationAgent.interaction_logs
    student_metrics,   \* AggregationAgent.student_metrics
    system_metrics,    \* AggregationAgent.system_metrics
    learning_patterns, \* AggregationAgent.learning_patterns
    call,              \* the last completed log_interaction call and its outcome
    history,           \* every event log_interaction has stored, in order
    asked,             \* the arguments of every log_interaction call, in order
    ticks,             \* how often the clock has been advanced
    heap,              \* the RAG entry dicts ever created; an entry's id is its index
    rag_store,         \* TakeawayAgent.rag_store, as the ids of its entries
    appended,          \* the ids ever appended to rag_store, in order
    upserts,           \* _update_rag_store calls made on their own
    session_summaries, \* TakeawayAgent.session_summaries
    success_patterns,  \* TakeawayAgent.success_patterns
    result,            \* what the last analyze_session call returned, and for which turns
    analyses,          \* completed analyze_session calls
    analysed,          \* the analyses of sessions with interactions, in order
    pc,                \* the call that is between two of its statements, and where
    seen,              \* the lengths a reader found when it last looked
    faq_questions,     \* the question dicts handed to _group_similar_questions
    question_groups,   \* what _group_similar_questions returned for them
    assessed,          \* the raw log _assess_system_health was last given, by its counts
    health,            \* what _assess_system_health returned for it
    reply,             \* the last consumer-side query and what it returned
    progress           \* the difficulty levels _calculate_learning_progress was last
                       \* given, and what it returned

aggVars == <<now, interaction_logs, student_metrics, system_metrics,
             learning_patterns, call, history, asked, ticks>>

storeVars == <<heap, rag_store, appended, upserts>>

takeVars == <<session_summaries, success_patterns, result, analyses, analysed>>

stepVars == <<pc, seen>>

queryVars == <<faq_questions, question_groups, assessed, health, reply, progress>>

vars == <<aggVars, storeVars, takeVars, stepVars, queryVars>>

-----------------------------------------------------------------------------
(* Bounds of the model *)

\* len(self.interaction_logs) > 1000 in the source; scaled down
LogCap == 2

\* len(self.learning_patterns[student_id]) > 50 in the source; scaled down
LearnCap == 2

\* log_interaction calls per behaviour
MaxIngest == 3

\* clock advances per behaviour
MaxTicks == 1

\* len(self.rag_store) > 500 in the source; scaled down
StoreCap == 2

\* _update_rag_store calls per behaviour
MaxUpserts == 3

\* len(self.success_patterns[student_id]) > 20 in the source; scaled down
PatternCap == 2

\* analyze_session calls per behaviour
MaxAnalyses == 3

\* what one clock advance adds, in half hours
TickSteps == {1, 100, 400}

-----------------------------------------------------------------------------
(* Python values *)

None == "None"

\* timedelta(days=1), timedelta(weeks=1), timedelta(days=30), in half hours
DayWindow == 48
WeekWindow == 336
MonthWindow == 1440

Min(a, b) == IF a < b THEN a ELSE b
Max(a, b) == IF a > b THEN a ELSE b

\* lst[-k:] for k > 0
LastK(lst, k) ==
    IF Len(lst) <= k THEN lst ELSE SubSeq(lst, Len(lst) - k + 1, Len(lst))

\* set(lst)
ToSet(lst) == {lst[i] : i \in 1..Len(lst)}

\* d[k] = v on a dict
DictPut(d, k, v) == [x \in DOMAIN d \cup {k} |-> IF x = k THEN v ELSE d[x]]

\* the empty dict
EmptyDict == [x \in {} |-> 0]

\* defaultdict(list)[k]
ListAt(d, k) == IF k \in DOMAIN d THEN d[k] ELSE <<>>

-----------------------------------------------------------------------------
(* AggregationAgent *)

\* The calls the model makes: student_id, session_id, the message, the
\* response dict of the student agent and the metadata, the empty dict for a
\* call that passes none (metadata or {}).
Calls ==
    { [student_id |-> "s1", session_id |-> "a", message |-> "how do i solve x?",
       metadata |-> EmptyDict,
       response |-> [response |-> "subtract 2", concepts_covered |-> <<"algebra">>,
                     difficulty_level |-> "easy"]],
      [student_id |-> "s1", session_id |-> "b", message |-> "ok",
       metadata |-> [errors |-> TRUE],
       response |-> [response |-> "use the formula", concepts_covered |-> <<"algebra", "geometry">>,
                     difficulty_level |-> "hard"]],
      [student_id |-> "s2", session_id |-> "a", message |-> "hi",
       metadata |-> EmptyDict,
       response |-> [response |-> "hello", concepts_covered |-> <<>>,
                     difficulty_level |-> "medium"]],
      [student_id |-> "s2", session_id |-> "c", message |-> "area of a circle?",
       metadata |-> [errors |-> FALSE],
       response |-> [response |-> "pi r squared", concepts_covered |-> <<"geometry">>,
                     difficulty_level |-> "medium"]],
      [student_id |-> None, session_id |-> "a", message |-> "help",
       metadata |-> EmptyDict,
       response |-> [response |-> "sure", concepts_covered |-> <<"algebra">>,
                     difficulty_level |-> "medium"]],
      [student_id |-> "s1", session_id |-> None, message |-> "what?",
       metadata |-> EmptyDict,
       response |-> [response |-> "", concepts_covered |-> <<>>,
                     difficulty_level |-> "medium"]] }

StudentIds == {c.student_id : c \in Calls}

\* interaction_data of log_interaction; n is the position of the event in
\* the ingestion sequence (an observer's label, not a field of the dict)
InteractionData(c, t, n) ==
    [ timestamp        |-> t,
      student_id       |-> c.student_id,
      session_id       |-> c.session_id,
      message_length   |-> Len(c.message),
      response_length  |-> Len(c.response.response),
      concepts_covered |-> c.response.concepts_covered,
      difficulty_level |-> c.response.difficulty_level,
      metadata         |-> c.metadata,
      n                |-> n ]

\* an update that assigns the concepts of the event instead of adding them
UpdateStudentMetrics_Assign(metrics, student_id, data) ==
    LET old == IF student_id \in DOMAIN metrics
               THEN metrics[student_id]
               ELSE [ total_interactions |-> 0,
                      total_concepts     |-> {},
                      session_count      |-> {},
                      first_interaction  |-> data.timestamp,
                      last_interaction   |-> data.timestamp ]
    IN  DictPut(metrics, student_id,
          [ total_interactions |-> old.total_interactions + 1,
            total_concepts     |-> ToSet(data.concepts_covered),
            session_count      |-> old.session_count \cup {data.session_id},
            first_interaction  |-> old.first_interaction,
            last_interaction   |-> data.timestamp ])

\* _update_student_metrics
UpdateStudentMetrics(metrics, student_id, data) ==
    LET old == IF student_id \in DOMAIN metrics
               THEN metrics[student_id]
               ELSE [ total_interactions |-> 0,
                      total_concepts     |-> {},
                      session_count      |-> {},
                      first_interaction  |-> data.timestamp,
                      last_interaction   |-> data.timestamp ]
    IN  DictPut(metrics, student_id,
          [ total_interactions |-> old.total_interactions + 1,
            total_concepts     |-> old.total_concepts \cup ToSet(data.concepts_covered),
            session_count      |-> old.session_count \cup {data.session_id},
            first_interaction  |-> old.first_interaction,
            last_interaction   |-> data.timestamp ])

\* an update whose cut keeps the head of the history instead of its tail
UpdateLearningPatterns_KeepOldest(patterns, student_id, data) ==
    LET pattern_data == [ timestamp  |-> data.timestamp,
                          concepts   |-> data.concepts_covered,
                          difficulty |-> data.difficulty_level,
                          n          |-> data.n ]
        longer == Append(ListAt(patterns, student_id), pattern_data)
    IN  DictPut(patterns, student_id,
                IF Len(longer) > LearnCap THEN SubSeq(longer, 1, LearnCap) ELSE longer)

\* _update_learning_patterns
UpdateLearningPatterns(patterns, student_id, data) ==
    LET pattern_data == [ timestamp  |-> data.timestamp,
                          concepts   |-> data.concepts_covered,
                          difficulty |-> data.difficulty_level,
                          n          |-> data.n ]
        longer == Append(ListAt(patterns, student_id), pattern_data)
    IN  DictPut(patterns, student_id,
                IF Len(longer) > LearnCap THEN LastK(longer, LearnCap) ELSE longer)

\* datetime.fromisoformat(timestamp).strftime('%Y-%m-%d-%H')
HourKey(t) == t \div 2

\* _update_system_metrics
UpdateSystemMetrics(buckets, data) ==
    DictPut(buckets, HourKey(data.timestamp),
            Append(ListAt(buckets, HourKey(data.timestamp)),
                   [ interaction_count |-> 1,
                     concepts_covered  |-> Len(data.concepts_covered),
                     response_length   |-> data.response_length ]))

\* a cleanup that keeps the head of the log (logs[:cap]) instead of its tail
CleanupLogs_KeepOldest(logs) ==
    IF Len(logs) > LogCap THEN SubSeq(logs, 1, LogCap) ELSE logs

\* the cleanup that ends log_interaction
CleanupLogs(logs) == IF Len(logs) > LogCap THEN LastK(logs, LogCap) ELSE logs

\* log_interaction: the code validates nothing, every call is stored
LogInteraction(c) ==
    /\ Len(history) < MaxIngest
    /\ LET data == InteractionData(c, now, Len(history) + 1)
       IN  /\ interaction_logs' = CleanupLogs(Append(interaction_logs, data))
           /\ student_metrics' = UpdateStudentMetrics(student_metrics, c.student_id, data)
           /\ learning_patterns' = UpdateLearningPatterns(learning_patterns, c.student_id, data)
           /\ system_metrics' = UpdateSystemMetrics(system_metrics, data)
           /\ history' = Append(history, data)
           /\ asked' = Append(asked, c)
           /\ call' = [student_id |-> c.student_id, session_id |-> c.session_id,
                       outcome |-> "returned", k |-> call.k + 1]
    /\ UNCHANGED <<now, ticks, storeVars, takeVars, stepVars, queryVars>>

\* time passes between calls
Tick(d) ==
    /\ ticks < MaxTicks
    /\ now' = now + d
    /\ ticks' = ticks + 1
    /\ UNCHANGED <<interaction_logs, student_metrics, system_metrics,
                   learning_patterns, call, history, asked, storeVars, takeVars, stepVars,
                   queryVars>>

\* start_time of _get_student_interactions
WindowOf(time_period) ==
    IF time_period = "day" THEN DayWindow
    ELSE IF time_period = "week" THEN WeekWindow
    ELSE IF time_period = "month" THEN MonthWindow
    ELSE WeekWindow

RECURSIVE Filter(_, _, _, _)
\* the list comprehension of _get_student_interactions over logs
Filter(logs, student_id, start_time, i) ==
    IF i > Len(logs) THEN <<>>
    ELSE IF logs[i].student_id = student_id /\ logs[i].timestamp >= start_time
         THEN <<logs[i]>> \o Filter(logs, student_id, start_time, i + 1)
         ELSE Filter(logs, student_id, start_time, i + 1)

Reverse(lst) == [i \in 1..Len(lst) |-> lst[Len(lst) + 1 - i]]

\* a read that returns the newest event first
GetStudentInteractions_NewestFirst(student_id, time_period) ==
    Reverse(Filter(interaction_logs, student_id, now - WindowOf(time_period), 1))

\* _get_student_interactions
GetStudentInteractions(student_id, time_period) ==
    Filter(interaction_logs, student_id, now - WindowOf(time_period), 1)

TimePeriods == {"day", "week", "month", "year"}

-----------------------------------------------------------------------------
(* Python strings *)

\* pat in text
Has(text, pat) ==
    \E i \in 1..(Len(text) - Len(pat) + 1) : SubSeq(text, i, i + Len(pat) - 1) = pat

UpperCase == "ABCDEFGHIJKLMNOPQRSTUVWXYZ"
LowerCase == "abcdefghijklmnopqrstuvwxyz"

\* the lower case letter of every upper case letter
LowerMap ==
    [c \in {SubSeq(UpperCase, i, i) : i \in 1..Len(UpperCase)} |->
        LET i == CHOOSE j \in 1..Len(UpperCase) : SubSeq(UpperCase, j, j) = c
        IN  SubSeq(LowerCase, i, i)]

\* str.lower() of one character
LowerChar(c) == IF c \in DOMAIN LowerMap THEN LowerMap[c] ELSE c

RECURSIVE LowerRange(_, _, _)
\* str.lower() of text[lo..hi], by halves
LowerRange(text, lo, hi) ==
    IF lo > hi THEN ""
    ELSE IF lo = hi THEN LowerChar(SubSeq(text, lo, lo))
    ELSE LET mid == (lo + hi) \div 2
         IN  LowerRange(text, lo, mid) \o LowerRange(text, mid + 1, hi)

\* str.lower(); a text without upper case letters is its own lower case
Lower(text) ==
    IF \A i \in 1..Len(text) : SubSeq(text, i, i) \notin DOMAIN LowerMap THEN text
    ELSE LowerRange(text, 1, Len(text))

\* the elements of a set of numbers, ascending
Ascending(S) ==
    [k \in 1..Cardinality(S) |-> CHOOSE x \in S : Cardinality({y \in S : y < x}) = k - 1]

\* the maximal runs of text whose characters satisfy in[i], in order
Runs(text, in) ==
    LET starts == {i \in 1..Len(text) : in[i] /\ (i = 1 \/ ~in[i - 1])}
        ends == {i \in 1..Len(text) : in[i] /\ (i = Len(text) \/ ~in[i + 1])}
        first == Ascending(starts)
        last == Ascending(ends)
    IN  [k \in 1..Len(first) |-> SubSeq(text, first[k], last[k])]

\* str.split(): the texts of the model hold no whitespace but the blank
Split(text) == Runs(text, [i \in 1..Len(text) |-> SubSeq(text, i, i) # " "])

RECURSIVE Join(_, _)
\* sep.join(lst)
Join(sep, lst) ==
    IF Len(lst) = 0 THEN ""
    ELSE IF Len(lst) = 1 THEN lst[1]
    ELSE lst[1] \o sep \o Join(sep, Tail(lst))

-----------------------------------------------------------------------------
(* Numbers: a float is kept as the exact fraction <<numerator, denominator>> *)

RECURSIVE GCD(_, _)
GCD(a, b) == IF b = 0 THEN a ELSE GCD(b, a % b)

Rat(n, d) == LET g == GCD(n, d) IN IF g = 0 THEN <<0, 1>> ELSE <<n \div g, d \div g>>

Zero == Rat(0, 1)

RatAdd(a, b) == Rat(a[1] * b[2] + b[1] * a[2], a[2] * b[2])
RatMul(a, b) == Rat(a[1] * b[1], a[2] * b[2])
RatLess(a, b) == a[1] * b[2] < b[1] * a[2]

-----------------------------------------------------------------------------
(* TakeawayAgent: the RAG store *)

\* entry.get('success_rate', 0)
SuccessRateOf(entry) == IF entry.success_rate = None THEN Zero ELSE entry.success_rate

\* content_similarity > 0.6 in _find_similar_rag_entry
ContentSimilar(new_entry, existing_entry) ==
    LET new_words == Split(Lower(new_entry.content))
        existing_words == Split(Lower(existing_entry.content))
    IN  10 * Cardinality(ToSet(new_words) \cap ToSet(existing_words))
           > 6 * Max(Len(new_words), 1)

\* an overlap that takes two empty concept sets for equal ones
ConceptSimilar_EmptyIsEqual(new_entry, existing_entry) ==
    LET new_concepts == ToSet(new_entry.concepts)
        existing_concepts == ToSet(existing_entry.concepts)
    IN  \/ new_concepts \cup existing_concepts = {}
        \/ 10 * Cardinality(new_concepts \cap existing_concepts)
              > 7 * Cardinality(new_concepts \cup existing_concepts)

\* concept_overlap > 0.7 in _find_similar_rag_entry
ConceptSimilar(new_entry, existing_entry) ==
    LET new_concepts == ToSet(new_entry.concepts)
        existing_concepts == ToSet(existing_entry.concepts)
    IN  10 * Cardinality(new_concepts \cap existing_concepts)
           > 7 * Max(Cardinality(new_concepts \cup existing_concepts), 1)

\* a search that returns the last similar entry of the store
FindSimilarRagEntry_Last(h, store, new_entry) ==
    LET hits == {i \in 1..Len(store) :
                    \/ ContentSimilar(new_entry, h[store[i]])
                    \/ ConceptSimilar(new_entry, h[store[i]])}
    IN  IF hits = {} THEN 0 ELSE CHOOSE i \in hits : \A j \in hits : i >= j

\* a search that asks for both similarities at once
FindSimilarRagEntry_Both(h, store, new_entry) ==
    LET hits == {i \in 1..Len(store) :
                    /\ ContentSimilar(new_entry, h[store[i]])
                    /\ ConceptSimilar(new_entry, h[store[i]])}
    IN  IF hits = {} THEN 0 ELSE CHOOSE i \in hits : \A j \in hits : i <= j

\* _find_similar_rag_entry: the position in the store of the first similar
\* entry, 0 for None
FindSimilarRagEntry(h, store, new_entry) ==
    LET hits == {i \in 1..Len(store) :
                    \/ ContentSimilar(new_entry, h[store[i]])
                    \/ ConceptSimilar(new_entry, h[store[i]])}
    IN  IF hits = {} THEN 0 ELSE CHOOSE i \in hits : \A j \in hits : i <= j

\* a merge that adds the success rates instead of averaging them
MergeInto_Sum(similar_entry, entry) ==
    [similar_entry EXCEPT
        !.source_sessions = similar_entry.source_sessions \o entry.source_sessions,
        !.success_rate = RatAdd(SuccessRateOf(similar_entry), SuccessRateOf(entry))]

\* the update of an existing entry in _update_rag_store
MergeInto(similar_entry, entry) ==
    [similar_entry EXCEPT
        !.source_sessions = similar_entry.source_sessions \o entry.source_sessions,
        !.success_rate = RatMul(RatAdd(SuccessRateOf(similar_entry), SuccessRateOf(entry)),
                                Rat(1, 2))]

\* one pass of the loop of _update_rag_store, for the entry with identifier
\* id; st holds the heap, the store and the ids appended so far
UpsertOne(st, id) ==
    LET pos == FindSimilarRagEntry(st.heap, st.store, st.heap[id])
    IN  IF pos # 0
        THEN [st EXCEPT !.heap[st.store[pos]] = MergeInto(st.heap[st.store[pos]], st.heap[id])]
        ELSE [st EXCEPT !.store = Append(st.store, id),
                        !.appended = Append(st.appended, id)]

RECURSIVE UpsertAll(_, _)
\* the loop of _update_rag_store over the new entries
UpsertAll(st, ids) ==
    IF Len(ids) = 0 THEN st ELSE UpsertAll(UpsertOne(st, Head(ids)), Tail(ids))

\* a cut that keeps the head of the store (rag_store[:cap])
TruncateStore_KeepOldest(store) ==
    IF Len(store) > StoreCap THEN SubSeq(store, 1, StoreCap) ELSE store

\* the cut that ends _update_rag_store
TruncateStore(store) ==
    IF Len(store) > StoreCap THEN LastK(store, StoreCap) ELSE store

\* _update_rag_store on new entries that are already on the heap
UpdateRagStoreState(st, ids) ==
    LET done == UpsertAll(st, ids)
    IN  [done EXCEPT !.store = TruncateStore(done.store)]

\* the ids a batch of new dicts gets on heap h
NewIds(h, batch) == [i \in 1..Len(batch) |-> Len(h) + i]

\* RAG entries a caller may hand to _update_rag_store
Candidates ==
    [ plain   |-> [type |-> "successful_method", content |-> "use a number line",
                   concepts |-> <<"algebra", "equations">>, success_rate |-> Rat(4, 5),
                   source_sessions |-> <<"x">>],
      graph   |-> [type |-> "successful_method", content |-> "draw the graph first",
                   concepts |-> <<"algebra", "linear">>, success_rate |-> Rat(3, 5),
                   source_sessions |-> <<"y">>],
      shout   |-> [type |-> "breakthrough_pattern", content |-> "Use a number LINE please",
                   concepts |-> <<"fractions">>, success_rate |-> None,
                   source_sessions |-> <<"y">>],
      stutter |-> [type |-> "successful_method", content |-> "draw draw draw the graph",
                   concepts |-> <<"geometry">>, success_rate |-> Rat(1, 1),
                   source_sessions |-> <<"z">>],
      same    |-> [type |-> "breakthrough_pattern", content |-> "count on your fingers",
                   concepts |-> <<"equations", "algebra", "algebra">>, success_rate |-> None,
                   source_sessions |-> <<"x">>],
      empty   |-> [type |-> "successful_method", content |-> "",
                   concepts |-> <<>>, success_rate |-> Rat(1, 2),
                   source_sessions |-> <<"z">>] ]

\* the batches of the model
Batches ==
    {<<Candidates[k]>> : k \in DOMAIN Candidates}
      \cup {<<Candidates.empty, Candidates.empty, Candidates.plain>>}

\* a call of _update_rag_store(new_entries)
UpdateRagStore(new_entries) ==
    /\ upserts < MaxUpserts
    /\ \E st \in {UpdateRagStoreState([heap |-> heap \o new_entries, store |-> rag_store,
                                        appended |-> appended],
                                       NewIds(heap, new_entries))} :
           /\ heap' = st.heap
           /\ rag_store' = st.store
           /\ appended' = st.appended
    /\ upserts' = upserts + 1
    /\ UNCHANGED <<aggVars, takeVars, stepVars, queryVars>>


-----------------------------------------------------------------------------
(* TakeawayAgent: the analysis of one session *)

\* any(p in text for p in phrases)
HasAny(text, phrases) == \E p \in phrases : Has(text, p)

RECURSIVE Sum(_)
\* sum(nums)
Sum(nums) == IF Len(nums) = 0 THEN 0 ELSE Head(nums) + Sum(Tail(nums))

\* round(x, 2), as the fraction of the hundredths; a tie goes to the even one
Round2(x) ==
    LET q == (100 * x[1]) \div x[2]
        r == (100 * x[1]) % x[2]
    IN  IF 2 * r > x[2] THEN Rat(q + 1, 100)
        ELSE IF 2 * r < x[2] THEN Rat(q, 100)
        ELSE IF q % 2 = 0 THEN Rat(q, 100) ELSE Rat(q + 1, 100)

RatMin(a, b) == IF RatLess(b, a) THEN b ELSE a

\* _calculate_engagement_from_interactions
CalculateEngagementFromInteractions(interactions) ==
    LET indicators(interaction) ==
            LET message == Lower(interaction.student_message)
            IN  (IF Has(message, "?") THEN 1 ELSE 0)
                + (IF Len(Split(message)) > 10 THEN 1 ELSE 0)
                + (IF HasAny(message, {"help", "explain", "understand"}) THEN 1 ELSE 0)
        total_possible == Len(interactions) * 3
    IN  IF Len(interactions) = 0 THEN Zero
        ELSE Rat(Sum([i \in 1..Len(interactions) |-> indicators(interactions[i])]), total_possible)

\* _assess_concept_understanding
AssessConceptUnderstanding(interactions) ==
    LET points(interaction) ==
            LET message == Lower(interaction.student_message)
            IN  IF HasAny(message, {"i understand", "makes sense", "i see"}) THEN 2
                ELSE IF HasAny(message, {"got it", "clear", "okay"}) THEN 1
                ELSE 0
    IN  IF Len(interactions) > 0
        THEN RatMin(Rat(Sum([i \in 1..Len(interactions) |-> points(interactions[i])]),
                        Len(interactions) * 2), Rat(1, 1))
        ELSE Zero

\* _assess_question_resolution
AssessQuestionResolution(interactions) ==
    LET asks(interaction) == IF Has(interaction.student_message, "?") THEN 1 ELSE 0
        questions == Sum([i \in 1..Len(interactions) |-> asks(interactions[i])])
    IN  IF questions = 0 THEN Rat(1, 1)
        ELSE RatMin(Rat(Len(interactions), questions * 2), Rat(1, 1))

\* _assess_learning_progression
AssessLearningProgression(interactions) ==
    LET half == Len(interactions) \div 2
        complexity(interaction) == Len(interaction.concepts_covered)
        early_complexity == Sum([i \in 1..half |-> complexity(interactions[i])])
        later_complexity ==
            Sum([i \in 1..(Len(interactions) - half) |-> complexity(interactions[half + i])])
    IN  IF Len(interactions) < 2 THEN Rat(1, 2)
        ELSE IF later_complexity > early_complexity THEN Rat(8, 10)
        ELSE IF later_complexity = early_complexity THEN Rat(6, 10)
        ELSE Rat(4, 10)

\* _analyze_session_effectiveness
AnalyzeSessionEffectiveness(interactions) ==
    LET indicators ==
            [ student_engagement   |-> CalculateEngagementFromInteractions(interactions),
              concept_understanding |-> AssessConceptUnderstanding(interactions),
              question_resolution  |-> AssessQuestionResolution(interactions),
              learning_progression |-> AssessLearningProgression(interactions) ]
        overall_score ==
            RatMul(RatAdd(RatAdd(indicators.student_engagement, indicators.concept_understanding),
                          RatAdd(indicators.question_resolution, indicators.learning_progression)),
                   Rat(1, 4))
    IN  IF Len(interactions) = 0
        THEN [ score |-> Zero,
               indicators |-> [ student_engagement |-> Zero, concept_understanding |-> Zero,
                                question_resolution |-> Zero, learning_progression |-> Zero ] ]
        ELSE [ score |-> Round2(overall_score), indicators |-> indicators ]

\* a trigger taken from the agent response of the turn of the breakthrough itself
IdentifyBreakthroughTrigger_SameTurn(interactions) ==
    IF Len(interactions) < 2 THEN "initial_explanation"
    ELSE LET last_agent_response == Lower(interactions[Len(interactions)].agent_response)
         IN  IF Has(last_agent_response, "step") THEN "step_by_step_explanation"
             ELSE IF Has(last_agent_response, "example") THEN "concrete_example"
             ELSE IF Has(last_agent_response, "video") THEN "visual_content"
             ELSE "detailed_explanation"

\* _identify_breakthrough_trigger
IdentifyBreakthroughTrigger(interactions) ==
    IF Len(interactions) < 2 THEN "initial_explanation"
    ELSE LET last_agent_response == Lower(interactions[Len(interactions) - 1].agent_response)
         IN  IF Has(last_agent_response, "step") THEN "step_by_step_explanation"
             ELSE IF Has(last_agent_response, "example") THEN "concrete_example"
             ELSE IF Has(last_agent_response, "video") THEN "visual_content"
             ELSE "detailed_explanation"

\* _extract_method_from_context
ExtractMethodFromContext(interactions) ==
    LET recent_responses == {interactions[i].response_format :
                                i \in Max(1, Len(interactions) - 2)..Len(interactions)}
    IN  IF "video" \in recent_responses THEN "video_explanation"
        ELSE IF "step_by_step" \in recent_responses THEN "step_by_step_method"
        ELSE IF "interactive" \in recent_responses THEN "interactive_practice"
        ELSE "text_explanation"

BreakthroughIndicators ==
    {"i understand", "i get it", "now i see", "that makes sense",
     "oh i see", "i got it", "clear now", "understand now"}

RECURSIVE BreakthroughsFrom(_, _)
\* the loop of _identify_learning_breakthroughs from turn i on
BreakthroughsFrom(interactions, i) ==
    IF i > Len(interactions) THEN <<>>
    ELSE LET student_message == Lower(interactions[i].student_message)
             understanding ==
                 IF HasAny(student_message, BreakthroughIndicators)
                 THEN << [ type |-> "understanding_breakthrough",
                           interaction_index |-> i - 1,
                           context |-> interactions[i].concepts_covered,
                           trigger |-> IdentifyBreakthroughTrigger(SubSeq(interactions, 1, i)),
                           method |-> None ] >>
                 ELSE <<>>
             method ==
                 IF HasAny(student_message, {"this method", "this way", "this approach"})
                 THEN << [ type |-> "method_breakthrough",
                           interaction_index |-> i - 1,
                           context |-> interactions[i].concepts_covered,
                           trigger |-> None,
                           method |-> ExtractMethodFromContext(SubSeq(interactions, 1, i)) ] >>
                 ELSE <<>>
         IN  understanding \o method \o BreakthroughsFrom(interactions, i + 1)

\* _identify_learning_breakthroughs
IdentifyLearningBreakthroughs(interactions) == BreakthroughsFrom(interactions, 1)

\* list.index(x): the first position that holds a value equal to x
IndexOf(lst, x) == CHOOSE i \in 1..Len(lst) : lst[i] = x /\ \A j \in 1..(i - 1) : lst[j] # x

\* _interaction_led_to_success
InteractionLedToSuccess(interaction, all_interactions) ==
    LET interaction_index == IndexOf(all_interactions, interaction)
    IN  \E j \in (interaction_index + 1)..Min(interaction_index + 2, Len(all_interactions)) :
            HasAny(Lower(all_interactions[j].student_message),
                   {"understand", "got it", "makes sense"})

\* _extract_success_indicators
ExtractSuccessIndicators(interaction) ==
    LET response == Lower(interaction.agent_response)
    IN  (IF Has(response, "step") THEN <<"structured_approach">> ELSE <<>>)
        \o (IF Has(response, "example") THEN <<"concrete_examples">> ELSE <<>>)
        \o (IF Len(response) > 200 THEN <<"detailed_explanation">> ELSE <<>>)

\* list.sort(key=..., reverse=True) on the keys: the positions in sorted
\* order; the sort is stable, equal keys keep their order
DescendingOrder(keys) ==
    LET before(i) == {j \in 1..Len(keys) :
                         \/ RatLess(keys[i], keys[j])
                         \/ (~RatLess(keys[j], keys[i]) /\ j < i)}
    IN  [k \in 1..Len(keys) |->
            CHOOSE i \in 1..Len(keys) : Cardinality(before(i)) = k - 1]

\* a sort that puts the smallest key first
AscendingOrder(keys) ==
    LET before(i) == {j \in 1..Len(keys) :
                         \/ RatLess(keys[j], keys[i])
                         \/ (~RatLess(keys[i], keys[j]) /\ j < i)}
    IN  [k \in 1..Len(keys) |->
            CHOOSE i \in 1..Len(keys) : Cardinality(before(i)) = k - 1]

\* ranked_methods.sort(key=effectiveness_score, reverse=True)
SortByScore(methods) ==
    LET order == DescendingOrder([i \in 1..Len(methods) |-> methods[i].effectiveness_score])
    IN  [k \in 1..Len(methods) |-> methods[order[k]]]

\* max(method_list, key=effectiveness_score): the first of the best
BestOf(method_list) ==
    LET i == CHOOSE j \in 1..Len(method_list) :
                 /\ \A k \in 1..Len(method_list) :
                       ~RatLess(method_list[j].effectiveness_score,
                                method_list[k].effectiveness_score)
                 /\ \A k \in 1..(j - 1) :
                       RatLess(method_list[k].effectiveness_score,
                               method_list[j].effectiveness_score)
    IN  method_list[i]

RECURSIVE Where(_, _)
\* [i for i, flag in enumerate(flags) if flag], from position i on
Where(flags, i) ==
    IF i > Len(flags) THEN <<>>
    ELSE (IF flags[i] THEN <<i>> ELSE <<>>) \o Where(flags, i + 1)

\* [x for x, flag in zip(lst, flags) if flag]
Select(lst, flags) == LET kept == Where(flags, 1) IN [k \in 1..Len(kept) |-> lst[kept[k]]]

\* a ranking that sorts the methods by score and keeps every one of them
RankAndDeduplicateMethods_KeepAll(methods) == SortByScore(methods)

\* _rank_and_deduplicate_methods
RankAndDeduplicateMethods(methods) ==
    LET first_of_name(i) == \A j \in 1..(i - 1) : methods[j].method # methods[i].method
        names == Where([i \in 1..Len(methods) |-> first_of_name(i)], 1)
        group(i) == Select(methods, [j \in 1..Len(methods) |->
                                        methods[j].method = methods[i].method])
        ranked_methods == [k \in 1..Len(names) |-> BestOf(group(names[k]))]
    IN  SortByScore(ranked_methods)

\* _identify_successful_methods
IdentifySuccessfulMethods(interactions, effectiveness) ==
    LET led(interaction) == InteractionLedToSuccess(interaction, interactions)
        successful == Select(interactions,
                             [i \in 1..Len(interactions) |-> led(interactions[i])])
        successful_methods ==
            [i \in 1..Len(successful) |->
                [ method |-> successful[i].response_format \o "_explanation",
                  concepts |-> successful[i].concepts_covered,
                  effectiveness_score |-> effectiveness.score,
                  student_response_indicators |-> ExtractSuccessIndicators(successful[i]) ]]
    IN  IF RatLess(effectiveness.score, Rat(6, 10)) THEN <<>>
        ELSE RankAndDeduplicateMethods(successful_methods)

\* _summarize_learning_outcomes, as the parts the text is made of
SummarizeLearningOutcomes(interactions) ==
    LET concepts == UNION {ToSet(interactions[i].concepts_covered) : i \in 1..Len(interactions)}
        understood(interaction) ==
            IF HasAny(Lower(interaction.student_message), {"understand", "got it", "clear"})
            THEN 1 ELSE 0
    IN  <<Cardinality(concepts),
          Sum([i \in 1..Len(interactions) |-> understood(interactions[i])])>>

\* _generate_session_summary, as the parts the text is made of
GenerateSessionSummary(session_id, student_id, interactions, concepts, duration) ==
    << session_id, student_id, duration, Len(interactions), concepts,
       IF Len(interactions) > 5 THEN "Extended learning session with deep exploration"
       ELSE IF Len(interactions) > 2 THEN "Focused learning session"
       ELSE "Brief learning interaction",
       SummarizeLearningOutcomes(interactions) >>

\* _extract_rag_entries
ExtractRagEntries(summary, methods, breakthroughs) ==
    [i \in 1..Len(methods) |->
        [ type |-> "successful_method",
          content |-> "Method '" \o methods[i].method \o "' was effective for concepts: "
                        \o Join(", ", methods[i].concepts),
          concepts |-> methods[i].concepts,
          success_rate |-> methods[i].effectiveness_score,
          source_sessions |-> <<summary>> ]]
    \o
    [i \in 1..Len(breakthroughs) |->
        [ type |-> "breakthrough_pattern",
          content |-> "Breakthrough of type '" \o breakthroughs[i].type
                        \o "' occurred when working on: "
                        \o Join(", ", breakthroughs[i].context),
          concepts |-> breakthroughs[i].context,
          success_rate |-> None,
          source_sessions |-> <<summary>> ]]

\* _generate_key_insights
GenerateKeyInsights(interactions, effectiveness) ==
    LET score == effectiveness.score
        concepts_covered ==
            UNION {ToSet(interactions[i].concepts_covered) : i \in 1..Len(interactions)}
    IN  << IF RatLess(Rat(8, 10), score)
             THEN "Highly effective session with strong student engagement"
           ELSE IF RatLess(Rat(6, 10), score)
             THEN "Good learning session with positive outcomes"
           ELSE IF RatLess(Rat(4, 10), score)
             THEN "Moderate effectiveness - room for improvement"
           ELSE "Low effectiveness - consider different approaches" >>
        \o (IF Len(interactions) > 8
            THEN <<"Student showed persistence with extended interaction">> ELSE <<>>)
        \o (IF Cardinality(concepts_covered) > 3
              THEN <<"Session covered multiple mathematical concepts">>
            ELSE IF Cardinality(concepts_covered) = 1
              THEN <<"Focused deep dive into single concept">>
            ELSE <<>>)

\* _generate_future_recommendations
GenerateFutureRecommendations(effectiveness, methods) ==
    LET indicators == effectiveness.indicators
    IN  (IF RatLess(indicators.student_engagement, Rat(6, 10))
         THEN <<"Focus on increasing student engagement through interactive methods">>
         ELSE <<>>)
        \o (IF RatLess(indicators.concept_understanding, Rat(6, 10))
            THEN <<"Provide more scaffolding and examples for concept explanation">>
            ELSE <<>>)
        \o (IF RatLess(indicators.question_resolution, Rat(6, 10))
            THEN <<"Ensure student questions are fully addressed before moving on">>
            ELSE <<>>)
        \o (IF Len(methods) > 0
            THEN <<"Continue using '" \o BestOf(methods).method
                     \o "' as it showed good results">>
            ELSE <<>>)

\* a cut that keeps the head of the history (patterns[:cap]) instead of its tail
TruncatePatterns_KeepOldest(patterns) ==
    IF Len(patterns) > PatternCap THEN SubSeq(patterns, 1, PatternCap) ELSE patterns

\* the cut that ends _update_success_patterns
TruncatePatterns(patterns) ==
    IF Len(patterns) > PatternCap THEN LastK(patterns, PatternCap) ELSE patterns

\* pattern_entry of _update_success_patterns
PatternEntry(takeaways) ==
    [ session_id |-> takeaways.session_id,
      effectiveness_score |-> takeaways.effectiveness_score,
      successful_methods |-> takeaways.successful_methods,
      breakthroughs |-> takeaways.breakthroughs,
      concepts |-> [i \in 1..Len(takeaways.successful_methods) |->
                      takeaways.successful_methods[i].concepts],
      timestamp |-> takeaways.analyzed_at ]

\* what one analysis of a student's session produced
Analysis(student_id, takeaways) ==
    [ student_id |-> student_id,
      session_id |-> takeaways.session_id,
      effectiveness_score |-> takeaways.effectiveness_score ]

\* _update_success_patterns
UpdateSuccessPatterns(patterns, student_id, takeaways) ==
    DictPut(patterns, student_id,
            TruncatePatterns(Append(ListAt(patterns, student_id), PatternEntry(takeaways))))

\* what analyze_session builds from a session with interactions
Takeaways(session_id, session_data, first_id, t) ==
    LET student_id == session_data.student_id
        interactions == session_data.interactions
        effectiveness_analysis == AnalyzeSessionEffectiveness(interactions)
        breakthroughs == IdentifyLearningBreakthroughs(interactions)
        successful_methods == IdentifySuccessfulMethods(interactions, effectiveness_analysis)
        session_summary ==
            GenerateSessionSummary(session_id, student_id, interactions,
                                   session_data.concepts_covered, session_data.duration_minutes)
        rag_entries == ExtractRagEntries(session_summary, successful_methods, breakthroughs)
    IN  [ takeaways |->
            [ session_id |-> session_id,
              student_id |-> student_id,
              summary |-> session_summary,
              effectiveness_score |-> effectiveness_analysis.score,
              breakthroughs |-> breakthroughs,
              successful_methods |-> successful_methods,
              key_insights |-> GenerateKeyInsights(interactions, effectiveness_analysis),
              recommendations |->
                  GenerateFutureRecommendations(effectiveness_analysis, successful_methods),
              rag_entries |-> [i \in 1..Len(rag_entries) |-> first_id + i - 1],
              analyzed_at |-> t ],
          rag_entries |-> rag_entries ]

ConceptsA == <<"solving linear equations", "graphing quadratic functions">>
ConceptsB == <<"adding unlike fractions", "comparing decimal numbers">>
ConceptsC == <<"area of triangles", "volume of cylinders">>
ConceptsD == <<"long division with remainders", "prime factor trees">>

\* the sessions the model analyses: session_id and session_data
Sessions ==
    { [ session_id |-> "x",
        data |-> [ student_id |-> "s1", interactions |-> <<>>,
                   concepts_covered |-> <<>>, duration_minutes |-> 0 ] ],
      [ session_id |-> "x",
        data |-> [ student_id |-> "s1",
                   interactions |->
                     << [ student_message |-> "Oh I see, that makes sense",
                          agent_response |-> "Think of a balance",
                          concepts_covered |-> ConceptsA, response_format |-> "text" ] >>,
                   concepts_covered |-> ConceptsA, duration_minutes |-> 5 ] ],
      [ session_id |-> "y",
        data |-> [ student_id |-> "s2",
                   interactions |->
                     << [ student_message |-> "Can you explain fractions?",
                          agent_response |-> "Here is one step after the other",
                          concepts_covered |-> ConceptsB, response_format |-> "step_by_step" ],
                        [ student_message |-> "I understand now, this method works",
                          agent_response |-> "Well done",
                          concepts_covered |-> ConceptsD, response_format |-> "text" ] >>,
                   concepts_covered |-> ConceptsB, duration_minutes |-> 12 ] ],
      [ session_id |-> "z",
        data |-> [ student_id |-> "s1",
                   interactions |->
                     << [ student_message |-> "ok I get it now",
                          agent_response |-> "For example a video",
                          concepts_covered |-> ConceptsC, response_format |-> "video" ] >>,
                   concepts_covered |-> ConceptsC, duration_minutes |-> 3 ] ],
      [ session_id |-> "v",
        data |-> [ student_id |-> "s2",
                   interactions |->
                     << [ student_message |-> "That makes sense",
                          agent_response |-> "Good",
                          concepts_covered |-> ConceptsA, response_format |-> "text" ] >>,
                   concepts_covered |-> ConceptsA, duration_minutes |-> 2 ] ],
      [ session_id |-> "w",
        data |-> [ student_id |-> "s2",
                   interactions |->
                     << [ student_message |-> "What?",
                          agent_response |-> "Try again",
                          concepts_covered |-> <<"algebra">>, response_format |-> "text" ],
                        [ student_message |-> "Why?",
                          agent_response |-> "Try again",
                          concepts_covered |-> <<"algebra">>, response_format |-> "text" ] >>,
                   concepts_covered |-> <<"algebra">>, duration_minutes |-> 1 ] ] }

\* turns per transcript
MaxTurns == 4

\* the turns the transcripts are made of
TurnPool ==
    { [ student_message |-> "Can you explain this?",
        agent_response |-> "Here is the first Step",
        concepts_covered |-> <<"algebra">>, response_format |-> "step_by_step" ],
      [ student_message |-> "hmm",
        agent_response |-> "Try an example",
        concepts_covered |-> <<>>, response_format |-> "text" ],
      [ student_message |-> "I understand, that makes sense",
        agent_response |-> "Watch the video",
        concepts_covered |-> ConceptsA, response_format |-> "video" ],
      [ student_message |-> "This way I got it",
        agent_response |-> "Well done",
        concepts_covered |-> <<"geometry">>, response_format |-> "text" ] }

\* the transcripts: every list of 1 to MaxTurns turns
Transcripts == UNION {[1..n -> TurnPool] : n \in 1..MaxTurns}

\* the session_data of a transcript
TranscriptSession(turns) ==
    [ student_id |-> "s1", interactions |-> turns,
      concepts_covered |-> <<"algebra">>, duration_minutes |-> 10 ]

\* a test that lets every session through to the analysis
HasInteractions_Always(interactions) == TRUE

\* the test `if not interactions` that ends analyze_session early
HasInteractions(interactions) == Len(interactions) # 0

\* analyze_session(session_id, session_data)
AnalyzeSession(session_id, session_data) ==
    /\ analyses < MaxAnalyses
    /\ IF ~HasInteractions(session_data.interactions)
       THEN /\ result' = [ kind |-> "returned", turns |-> 0, interactions |-> <<>>,
                           value |-> [ session_id |-> session_id,
                                       message |-> "No interactions to analyze",
                                       takeaways |-> <<>> ] ]
            /\ UNCHANGED <<heap, rag_store, appended, session_summaries, success_patterns,
                           analysed>>
       ELSE \E built \in {Takeaways(session_id, session_data, Len(heap) + 1, now)} :
            \E st \in {UpdateRagStoreState(
                           [heap |-> heap \o built.rag_entries, store |-> rag_store,
                            appended |-> appended],
                           built.takeaways.rag_entries)} :
                /\ session_summaries' = DictPut(session_summaries, session_id, built.takeaways)
                /\ success_patterns' =
                      UpdateSuccessPatterns(success_patterns, session_data.student_id,
                                            built.takeaways)
                /\ heap' = st.heap
                /\ rag_store' = st.store
                /\ appended' = st.appended
                /\ result' = [kind |-> "returned", turns |-> Len(session_data.interactions),
                              interactions |-> session_data.interactions,
                              value |-> built.takeaways]
                /\ analysed' = Append(analysed,
                                      Analysis(session_data.student_id, built.takeaways))
    /\ analyses' = analyses + 1
    /\ UNCHANGED <<aggVars, upserts, stepVars, queryVars>>

-----------------------------------------------------------------------------
(* TakeawayAgent: retrieval *)

WordChars == LowerCase \o UpperCase \o "0123456789_"

\* the characters \w matches
WordCharSet == {SubSeq(WordChars, i, i) : i \in 1..Len(WordChars)}

IsWordChar(c) == c \in WordCharSet

StopWords ==
    {"the", "a", "an", "and", "or", "but", "in", "on", "at", "to", "for", "of", "with", "by"}

\* lst[:k]
Take(lst, k) ==
    IF k >= 0 THEN SubSeq(lst, 1, Min(k, Len(lst)))
    ELSE SubSeq(lst, 1, Max(Len(lst) + k, 0))

\* _extract_key_terms
ExtractKeyTerms(text) ==
    LET lowered == Lower(text)
        words == Runs(lowered, [i \in 1..Len(lowered) |-> IsWordChar(SubSeq(lowered, i, i))])
        key_terms == Select(words, [i \in 1..Len(words) |->
                                       Len(words[i]) > 3 /\ words[i] \notin StopWords])
    IN  Take(key_terms, 10)

\* a relevance that weighs the success rate 0.6 and the matches 0.2 each
CalculateRelevanceScore_RateHeavy(rag_entry, question_terms, student_concepts) ==
    LET entry_content == Lower(rag_entry.content)
        term_matches == Cardinality({i \in 1..Len(question_terms) :
                                        Has(entry_content, question_terms[i])})
        term_score == IF Len(question_terms) > 0
                      THEN Rat(term_matches, Len(question_terms)) ELSE Zero
        concept_matches == Cardinality(ToSet(student_concepts) \cap ToSet(rag_entry.concepts))
        concept_score == Rat(concept_matches, Max(Len(student_concepts), 1))
        score == RatAdd(RatAdd(RatMul(term_score, Rat(2, 10)),
                               RatMul(concept_score, Rat(2, 10))),
                        RatMul(SuccessRateOf(rag_entry), Rat(6, 10)))
    IN  RatMin(score, Rat(1, 1))

\* _calculate_relevance_score; the sums are exact, not floating point
CalculateRelevanceScore(rag_entry, question_terms, student_concepts) ==
    LET entry_content == Lower(rag_entry.content)
        term_matches == Cardinality({i \in 1..Len(question_terms) :
                                        Has(entry_content, question_terms[i])})
        term_score == IF Len(question_terms) > 0
                      THEN Rat(term_matches, Len(question_terms)) ELSE Zero
        concept_matches == Cardinality(ToSet(student_concepts) \cap ToSet(rag_entry.concepts))
        concept_score == Rat(concept_matches, Max(Len(student_concepts), 1))
        score == RatAdd(RatAdd(RatMul(term_score, Rat(4, 10)),
                               RatMul(concept_score, Rat(4, 10))),
                        RatMul(SuccessRateOf(rag_entry), Rat(2, 10)))
    IN  RatMin(score, Rat(1, 1))

RECURSIVE ScoreEntries(_, _, _, _)
\* the loop of get_relevant_insights over the store: the entries that
\* score above 0.3, each with its score, in store order
ScoreEntries(h, store, question_terms, student_concepts) ==
    IF store = <<>> THEN <<>>
    ELSE LET relevance_score ==
                 CalculateRelevanceScore(h[Head(store)], question_terms, student_concepts)
         IN  (IF RatLess(Rat(3, 10), relevance_score)
              THEN << <<Head(store), relevance_score>> >> ELSE <<>>)
             \o ScoreEntries(h, Tail(store), question_terms, student_concepts)

\* the dict returned for one scored entry
InsightOf(h, scored) ==
    [ insight |-> h[scored[1]].content,
      success_rate |-> SuccessRateOf(h[scored[1]]),
      relevance_score |-> scored[2],
      source_sessions |-> h[scored[1]].source_sessions,
      applicable_concepts |-> h[scored[1]].concepts ]

\* a retrieval that sorts the scored entries the wrong way round
GetRelevantInsights_Ascending(student_context, current_question, limit) ==
    LET question_terms == ExtractKeyTerms(current_question)
        scored_entries == ScoreEntries(heap, rag_store, question_terms,
                                       student_context.recent_concepts)
        order == AscendingOrder([k \in 1..Len(scored_entries) |-> scored_entries[k][2]])
        top == Take(order, limit)
    IN  [k \in 1..Len(top) |-> InsightOf(heap, scored_entries[top[k]])]

\* get_relevant_insights
GetRelevantInsights(student_context, current_question, limit) ==
    LET question_terms == ExtractKeyTerms(current_question)
        scored_entries == ScoreEntries(heap, rag_store, question_terms,
                                       student_context.recent_concepts)
        order == DescendingOrder([k \in 1..Len(scored_entries) |-> scored_entries[k][2]])
        top == Take(order, limit)
    IN  [k \in 1..Len(top) |-> InsightOf(heap, scored_entries[top[k]])]

\* the questions the model asks: the student context and the question
Queries ==
    { [ student_context |-> [recent_concepts |-> <<"algebra">>],
        current_question |-> "How do I draw a number line?" ],
      [ student_context |-> [recent_concepts |-> <<"geometry", "algebra", "algebra">>],
        current_question |-> "Number LINE" ],
      [ student_context |-> [recent_concepts |-> <<>>],
        current_question |-> "Is it on the graph or not?" ] }

\* the limits the model asks with
Limits == {0, 1, 2}

\* limit: int = 5
DefaultLimit == 5

\* the questions asked of a store that sessions have filled
StoreQueries ==
    { [ student_context |-> [recent_concepts |-> <<>>],
        current_question |-> "Is it on or in?" ],
      [ student_context |-> [recent_concepts |-> <<"topology">>],
        current_question |-> "the a an" ],
      [ student_context |-> [recent_concepts |-> ConceptsB],
        current_question |-> "Is it so?" ],
      [ student_context |-> [recent_concepts |-> <<>>],
        current_question |-> "Which method?" ] }

-----------------------------------------------------------------------------
(* The same calls statement by statement. The code takes no lock: these are *)
(* the states another thread finds the agents' lists in while a call runs.  *)

Idle == [op |-> "idle"]

\* the calls and sessions the statement-level model makes
StepCalls == {c \in Calls : c.student_id = "s1" /\ c.session_id = "a"}

StepSessions ==
    {s \in Sessions : s.session_id \in {"x", "y", "z"} /\ Len(s.data.interactions) > 0}

\* max(len(v) for v in d.values()), 0 for an empty dict
LongestList(d) ==
    IF DOMAIN d = {} THEN 0
    ELSE CHOOSE n \in {Len(d[k]) : k \in DOMAIN d} : \A k \in DOMAIN d : Len(d[k]) <= n

\* log_interaction up to and including interaction_logs.append
LogAppendStep(c) ==
    /\ pc = Idle
    /\ Len(history) < MaxIngest
    /\ LET data == InteractionData(c, now, Len(history) + 1)
       IN  /\ interaction_logs' = Append(interaction_logs, data)
           /\ history' = Append(history, data)
           /\ asked' = Append(asked, c)
           /\ pc' = [op |-> "log_interaction", at |-> "metrics",
                     student_id |-> c.student_id, session_id |-> c.session_id,
                     data |-> data]
    /\ UNCHANGED <<now, student_metrics, system_metrics, learning_patterns, call, ticks,
                   storeVars, takeVars, seen, queryVars>>

\* the three awaited updates of log_interaction
LogMetricsStep ==
    /\ pc.op = "log_interaction"
    /\ pc.at = "metrics"
    /\ student_metrics' = UpdateStudentMetrics(student_metrics, pc.student_id, pc.data)
    /\ learning_patterns' = UpdateLearningPatterns(learning_patterns, pc.student_id, pc.data)
    /\ system_metrics' = UpdateSystemMetrics(system_metrics, pc.data)
    /\ pc' = [pc EXCEPT !.at = "cleanup"]
    /\ UNCHANGED <<now, interaction_logs, call, history, asked, ticks, storeVars, takeVars,
                   seen, queryVars>>

\* the cleanup of log_interaction, and its return
LogCleanupStep ==
    /\ pc.op = "log_interaction"
    /\ pc.at = "cleanup"
    /\ interaction_logs' = CleanupLogs(interaction_logs)
    /\ call' = [student_id |-> pc.student_id, session_id |-> pc.session_id,
                outcome |-> "returned", k |-> call.k + 1]
    /\ pc' = Idle
    /\ UNCHANGED <<now, student_metrics, system_metrics, learning_patterns, history, asked,
                   ticks, storeVars, takeVars, seen, queryVars>>

\* analyze_session up to and including session_summaries[session_id] = takeaways
AnalyzeStartStep(session_id, session_data) ==
    /\ pc = Idle
    /\ analyses < MaxAnalyses
    /\ Len(session_data.interactions) > 0
    /\ \E built \in {Takeaways(session_id, session_data, Len(heap) + 1, now)} :
           /\ session_summaries' = DictPut(session_summaries, session_id, built.takeaways)
           /\ heap' = heap \o built.rag_entries
           /\ pc' = [op |-> "analyze_session", at |-> "append_pattern",
                     student_id |-> session_data.student_id,
                     turns |-> Len(session_data.interactions),
                     interactions |-> session_data.interactions,
                     takeaways |-> built.takeaways,
                     rest |-> built.takeaways.rag_entries]
    /\ UNCHANGED <<aggVars, rag_store, appended, upserts, success_patterns, result,
                   analyses, analysed, seen, queryVars>>

\* success_patterns[student_id].append(pattern_entry)
PatternAppendStep ==
    /\ pc.op = "analyze_session"
    /\ pc.at = "append_pattern"
    /\ success_patterns' =
          DictPut(success_patterns, pc.student_id,
                  Append(ListAt(success_patterns, pc.student_id), PatternEntry(pc.takeaways)))
    /\ analysed' = Append(analysed, Analysis(pc.student_id, pc.takeaways))
    /\ pc' = [pc EXCEPT !.at = "cut_patterns"]
    /\ UNCHANGED <<aggVars, storeVars, session_summaries, result, analyses, seen, queryVars>>

\* the cut that ends _update_success_patterns
PatternCutStep ==
    /\ pc.op = "analyze_session"
    /\ pc.at = "cut_patterns"
    /\ success_patterns' =
          DictPut(success_patterns, pc.student_id,
                  TruncatePatterns(ListAt(success_patterns, pc.student_id)))
    /\ pc' = [pc EXCEPT !.at = "upsert"]
    /\ UNCHANGED <<aggVars, storeVars, session_summaries, result, analyses, analysed, seen,
                   queryVars>>

\* one pass of the loop of _update_rag_store
UpsertStep ==
    /\ pc.op = "analyze_session"
    /\ pc.at = "upsert"
    /\ pc.rest # <<>>
    /\ \E st \in {UpsertOne([heap |-> heap, store |-> rag_store, appended |-> appended],
                             Head(pc.rest))} :
           /\ heap' = st.heap
           /\ rag_store' = st.store
           /\ appended' = st.appended
    /\ pc' = [pc EXCEPT !.rest = Tail(pc.rest)]
    /\ UNCHANGED <<aggVars, upserts, takeVars, seen, queryVars>>

\* the cut that ends _update_rag_store, and the return of analyze_session
StoreCutStep ==
    /\ pc.op = "analyze_session"
    /\ pc.at = "upsert"
    /\ pc.rest = <<>>
    /\ rag_store' = TruncateStore(rag_store)
    /\ result' = [kind |-> "returned", turns |-> pc.turns,
                  interactions |-> pc.interactions, value |-> pc.takeaways]
    /\ analyses' = analyses + 1
    /\ pc' = Idle
    /\ UNCHANGED <<aggVars, heap, appended, upserts, session_summaries, success_patterns,
                   analysed, seen, queryVars>>

\* a reader on another thread takes the lengths of the three lists:
\* _get_student_interactions walks interaction_logs, get_relevant_insights
\* walks rag_store, get_success_patterns takes success_patterns[student_id]
ReadStep ==
    /\ seen' = [ logs |-> Len(interaction_logs),
                 store |-> Len(rag_store),
                 patterns |-> LongestList(success_patterns) ]
    /\ UNCHANGED <<aggVars, storeVars, takeVars, pc, queryVars>>

-----------------------------------------------------------------------------
(* TakeawayAgent: get_success_patterns *)

RECURSIVE Flatten(_)
\* [x for lst in lists for x in lst]
Flatten(lists) == IF lists = <<>> THEN <<>> ELSE Head(lists) \o Flatten(Tail(lists))

\* the students with a pattern history, in the order the dict got its keys:
\* the order of their first analysis
PatternStudents ==
    LET firsts == Where([i \in 1..Len(analysed) |->
                            \A j \in 1..(i - 1) :
                                analysed[j].student_id # analysed[i].student_id], 1)
    IN  [k \in 1..Len(firsts) |-> analysed[firsts[k]].student_id]

\* x == y for a str x and a list y: values of different types are not equal
StrEqualsList(x, y) == FALSE

\* concept in p.get('concepts', []): the elements of p['concepts'] are the
\* concept lists of the methods
ConceptIn(concept, pattern) ==
    \E i \in 1..Len(pattern.concepts) : StrEqualsList(concept, pattern.concepts[i])

\* the patterns get_success_patterns selects
SelectedPatterns(patterns, student_id, concept) ==
    LET of_student ==
            IF student_id \notin {None, ""}
            THEN ListAt(patterns, student_id)
            ELSE Flatten([k \in 1..Len(PatternStudents) |-> patterns[PatternStudents[k]]])
    IN  IF concept \notin {None, ""}
        THEN Select(of_student, [i \in 1..Len(of_student) |-> ConceptIn(concept, of_student[i])])
        ELSE of_student

\* get_success_patterns: with no pattern selected it returns a message;
\* otherwise it calls self._analyze_success_patterns, which TakeawayAgent
\* does not define, and the attribute lookup raises
GetSuccessPatterns(patterns, student_id, concept) ==
    IF SelectedPatterns(patterns, student_id, concept) = <<>>
    THEN [ kind |-> "returned",
           value |-> [ message |-> "No success patterns found for the specified criteria",
                       patterns |-> <<>> ] ]
    ELSE [ kind |-> "raised", error |-> "AttributeError" ]

\* the student filters the model asks with
PatternFilters == {None, "s1", "s2", "s3"}

-----------------------------------------------------------------------------
(* AggregationAgent: frequently asked questions *)

\* _group_similar_questions calls per behaviour
MaxQuestions == 3

\* the words _group_similar_questions does not take as key terms
QuestionWords == {"what", "how", "why", "when", "where", "does", "this", "that"}

\* key_terms of _group_similar_questions: the words of the lower-cased text,
\* split at blanks, that are longer than 3 and no question word
KeyTerms(question_text) ==
    LET words == Split(Lower(question_text))
    IN  Select(words, [i \in 1..Len(words) |->
                          Len(words[i]) > 3 /\ words[i] \notin QuestionWords])

\* how often each element occurs in lst: two lists have the same sorted tuple
\* exactly when each element occurs equally often in both
Occurrences(lst) ==
    [x \in ToSet(lst) |-> Cardinality({i \in 1..Len(lst) : lst[i] = x})]

\* group_key = tuple(sorted(concepts + key_terms[:3]))
GroupKey(question) == Occurrences(question.concepts \o Take(KeyTerms(question.question), 3))

RECURSIVE GroupSimilarQuestions(_)
\* _group_similar_questions: the groups in the order their keys first appear,
\* each with its questions in the order given
GroupSimilarQuestions(qs) ==
    IF qs = <<>> THEN <<>>
    ELSE LET before == GroupSimilarQuestions(SubSeq(qs, 1, Len(qs) - 1))
             question == qs[Len(qs)]
             group_key == GroupKey(question)
             hit == {i \in 1..Len(before) : before[i].group_key = group_key}
         IN  IF hit = {}
             THEN Append(before, [group_key |-> group_key, questions |-> <<question>>])
             ELSE LET i == CHOOSE i \in hit : TRUE
                  IN  [before EXCEPT ![i].questions = Append(@, question)]

\* dict.get(key, default)
Get(d, key, default) == IF key \in DOMAIN d THEN d[key] ELSE default

\* the questions get_frequently_asked_questions extracts from the raw log
QuestionsIn(logs) ==
    LET message(i) == Get(logs[i], "message", "")
        picked == Select(logs, [i \in 1..Len(logs) |->
                                   Has(message(i), "?") /\ Len(message(i)) > 10])
    IN  [k \in 1..Len(picked) |->
            [ question   |-> Get(picked[k], "message", ""),
              concepts   |-> Get(picked[k], "concepts_covered", <<>>),
              timestamp  |-> picked[k].timestamp,
              student_id |-> picked[k].student_id ]]

\* the concepts of all questions of a group
GroupConcepts(group_questions) ==
    UNION {ToSet(group_questions[i].concepts) : i \in 1..Len(group_questions)}

\* one element of faq_data; list(set(...)) has no order of its own and is
\* kept as the set
FaqEntry(group_questions) ==
    LET stamps == {group_questions[i].timestamp : i \in 1..Len(group_questions)}
    IN  [ representative_question |-> group_questions[1].question,
          frequency       |-> Len(group_questions),
          concepts        |-> GroupConcepts(group_questions),
          first_asked     |-> CHOOSE t \in stamps : \A u \in stamps : t <= u,
          last_asked      |-> CHOOSE t \in stamps : \A u \in stamps : u <= t,
          unique_students |-> Cardinality({group_questions[i].student_id :
                                              i \in 1..Len(group_questions)}) ]

\* limit: int = 10
DefaultFaqLimit == 10

\* get_frequently_asked_questions; a category of None or "" filters nothing
GetFrequentlyAskedQuestions(logs, limit, category) ==
    LET found == GroupSimilarQuestions(QuestionsIn(logs))
        wanted(g) == \/ category \in {None, ""}
                     \/ \E concept \in GroupConcepts(found[g].questions) :
                           Has(Lower(concept), Lower(category))
        kept == Select(found, [g \in 1..Len(found) |-> wanted(g)])
        faq_data == [k \in 1..Len(kept) |-> FaqEntry(kept[k].questions)]
        order == DescendingOrder([k \in 1..Len(faq_data) |-> Rat(faq_data[k].frequency, 1)])
    IN  Take([k \in 1..Len(faq_data) |-> faq_data[order[k]]], limit)

\* the question dicts the model groups
QuestionPool ==
    { [ question |-> "How do I solve for x?", concepts |-> <<"algebra">>,
        timestamp |-> 0, student_id |-> "s1" ],
      [ question |-> "How can I solve for x??", concepts |-> <<"algebra">>,
        timestamp |-> 1, student_id |-> "s2" ],
      [ question |-> "How do I solve for x?", concepts |-> <<"algebra", "algebra">>,
        timestamp |-> 2, student_id |-> "s1" ],
      [ question |-> "Find the area of that circle?", concepts |-> <<"geometry", "algebra">>,
        timestamp |-> 3, student_id |-> "s1" ],
      [ question |-> "Find the area of that circle?", concepts |-> <<"algebra", "geometry">>,
        timestamp |-> 4, student_id |-> "s2" ],
      [ question |-> "Why does this work?", concepts |-> <<>>,
        timestamp |-> 5, student_id |-> "s2" ] }

\* _group_similar_questions on the questions so far and one more
GroupQuestions(question) ==
    /\ Len(faq_questions) < MaxQuestions
    /\ faq_questions' = Append(faq_questions, question)
    /\ question_groups' = GroupSimilarQuestions(Append(faq_questions, question))
    /\ UNCHANGED <<aggVars, storeVars, takeVars, stepVars, assessed, health, reply,
                   progress>>

-----------------------------------------------------------------------------
(* AggregationAgent: system health *)

\* timedelta(hours=1), in the half hours the model counts time in
HourWindow == 2

\* len(recent_interactions) > 100
HighVolume == 100

\* the status and the issues of the volume check
VolumeCheck(recent_interactions) ==
    IF Len(recent_interactions) = 0
    THEN [status |-> "warning", issues |-> <<"No recent interactions">>]
    ELSE IF Len(recent_interactions) > HighVolume
         THEN [status |-> "warning", issues |-> <<"High interaction volume">>]
         ELSE [status |-> "healthy", issues |-> <<>>]

\* recent_interactions of _assess_system_health
RecentInteractions(logs, current_time) ==
    Select(logs, [i \in 1..Len(logs) |-> logs[i].timestamp >= current_time - HourWindow])

\* error_indicators of _assess_system_health
ErrorIndicators(recent_interactions) ==
    Select(recent_interactions,
           [i \in 1..Len(recent_interactions) |->
               Get(Get(recent_interactions[i], "metadata", EmptyDict), "errors", FALSE)])

\* len(error_indicators) > len(recent_interactions) * 0.1; the double 0.1 is
\* a little more than a tenth, so the product is never below the tenth of
\* the count and the comparison with an integer comes out as the exact one
HighErrorRate(recent_interactions) ==
    10 * Len(ErrorIndicators(recent_interactions)) > Len(recent_interactions)

\* a health check in which the volume check comes last and overrides the
\* error check
AssessSystemHealth_VolumeLast(logs, current_time) ==
    LET recent_interactions == RecentInteractions(logs, current_time)
        volume == VolumeCheck(recent_interactions)
        critical == HighErrorRate(recent_interactions)
    IN  [ status |-> IF volume.status = "warning" THEN "warning"
                     ELSE IF critical THEN "critical" ELSE "healthy",
          issues |-> (IF critical THEN <<"High error rate">> ELSE <<>>) \o volume.issues,
          recent_interaction_count |-> Len(recent_interactions),
          error_rate |-> IF recent_interactions # <<>>
                         THEN Rat(Len(ErrorIndicators(recent_interactions)),
                                  Len(recent_interactions))
                         ELSE Zero ]

\* _assess_system_health
AssessSystemHealth(logs, current_time) ==
    LET recent_interactions == RecentInteractions(logs, current_time)
        volume == VolumeCheck(recent_interactions)
        critical == HighErrorRate(recent_interactions)
    IN  [ status |-> IF critical THEN "critical" ELSE volume.status,
          issues |-> volume.issues \o (IF critical THEN <<"High error rate">> ELSE <<>>),
          recent_interaction_count |-> Len(recent_interactions),
          error_rate |-> IF recent_interactions # <<>>
                         THEN Rat(Len(ErrorIndicators(recent_interactions)),
                                  Len(recent_interactions))
                         ELSE Zero ]

\* events of the last hour in the raw logs the model assesses
MaxRecent == 102

\* error-flagged events among them
MaxFlagged == 12

\* older events before them
MaxStale == 1

\* the time of the assessment
HealthTime == 3

\* a call whose metadata flags an error, and the calls whose metadata do not
FlaggedCall == CHOOSE c \in Calls : Get(c.metadata, "errors", FALSE)

PlainCall == CHOOSE c \in Calls : c.metadata = EmptyDict

ClearedCall == CHOOSE c \in Calls : c.metadata = [errors |-> FALSE]

\* a raw log as log_interaction builds it: stale events from before the
\* last hour, then recent events, the first of them exactly an hour old, of
\* which the first flagged ones carry the error flag
HealthLog(recent, flagged, stale) ==
    [ n \in 1..(stale + recent) |->
        IF n <= stale
        THEN InteractionData(FlaggedCall, HealthTime - HourWindow - 1, n)
        ELSE InteractionData(IF n - stale <= flagged THEN FlaggedCall
                             ELSE IF n % 2 = 0 THEN PlainCall ELSE ClearedCall,
                             IF n = stale + 1 THEN HealthTime - HourWindow ELSE HealthTime,
                             n) ]

\* _assess_system_health on a raw log with the given numbers of events
AssessHealth(recent, flagged, stale) ==
    /\ health.status = "none"
    /\ assessed' = [recent |-> recent, flagged |-> flagged, stale |-> stale]
    /\ health' = AssessSystemHealth(HealthLog(recent, flagged, stale), HealthTime)
    /\ UNCHANGED <<aggVars, storeVars, takeVars, stepVars, faq_questions, question_groups,
                   reply, progress>>

-----------------------------------------------------------------------------
(* AggregationAgent: student analytics *)

RatDiv(a, b) == Rat(a[1] * b[2], a[2] * b[1])

RatSub(a, b) == Rat(a[1] * b[2] - b[1] * a[2], a[2] * b[2])

RECURSIVE RatSum(_)
\* sum(xs) of fractions
RatSum(xs) == IF Len(xs) = 0 THEN Zero ELSE RatAdd(Head(xs), RatSum(Tail(xs)))

\* statistics.mean(xs) of fractions
RatMean(xs) == RatMul(RatSum(xs), Rat(1, Len(xs)))

\* statistics.variance(xs): the sample variance
RatVariance(xs) ==
    LET mean == RatMean(xs)
        squares == [i \in 1..Len(xs) |-> RatMul(RatSub(xs[i], mean), RatSub(xs[i], mean))]
    IN  RatMul(RatSum(squares), Rat(1, Len(xs) - 1))

\* statistics.mean(nums) of integers
Mean(nums) == Rat(Sum(nums), Len(nums))

\* [concept for i in interactions for concept in i.get('concepts_covered', [])]
AllConcepts(interactions) ==
    Flatten([i \in 1..Len(interactions) |-> Get(interactions[i], "concepts_covered", <<>>)])

\* set(i['session_id'] for i in interactions)
SessionsOf(interactions) == {interactions[i].session_id : i \in 1..Len(interactions)}

\* _calculate_engagement_score
CalculateEngagementScore(interactions) ==
    IF interactions = <<>> THEN Zero
    ELSE LET avg_message_length ==
                 Mean([i \in 1..Len(interactions) |-> interactions[i].message_length])
             message_score == RatMin(RatDiv(avg_message_length, Rat(50, 1)), Rat(1, 1))
             sessions == SessionsOf(interactions)
             interactions_per_session ==
                 IF sessions # {} THEN Rat(Len(interactions), Cardinality(sessions)) ELSE Zero
             frequency_score == RatMin(RatDiv(interactions_per_session, Rat(10, 1)), Rat(1, 1))
             all_concepts == AllConcepts(interactions)
             diversity_score ==
                 IF all_concepts # <<>>
                 THEN RatMin(Rat(Cardinality(ToSet(all_concepts)), 5), Rat(1, 1))
                 ELSE Zero
         IN  Round2(RatMean(<<message_score, frequency_score, diversity_score>>))

\* engagement metrics that count every mention of a concept
CalculateEngagementMetrics_Mentions(interactions) ==
    [ total_interactions |-> Len(interactions),
      unique_sessions |-> Cardinality(SessionsOf(interactions)),
      avg_interactions_per_session |->
          Round2(Rat(Len(interactions), Cardinality(SessionsOf(interactions)))),
      avg_message_length |->
          Round2(Mean([i \in 1..Len(interactions) |-> interactions[i].message_length])),
      avg_response_length |->
          Round2(Mean([i \in 1..Len(interactions) |-> interactions[i].response_length])),
      concepts_explored |-> Len(AllConcepts(interactions)),
      concept_diversity |->
          IF AllConcepts(interactions) # <<>>
          THEN Round2(Rat(Cardinality(ToSet(AllConcepts(interactions))),
                          Len(AllConcepts(interactions))))
          ELSE Zero,
      engagement_score |-> CalculateEngagementScore(interactions) ]

\* _calculate_engagement_metrics, for a list with interactions
CalculateEngagementMetrics(interactions) ==
    [ total_interactions |-> Len(interactions),
      unique_sessions |-> Cardinality(SessionsOf(interactions)),
      avg_interactions_per_session |->
          Round2(Rat(Len(interactions), Cardinality(SessionsOf(interactions)))),
      avg_message_length |->
          Round2(Mean([i \in 1..Len(interactions) |-> interactions[i].message_length])),
      avg_response_length |->
          Round2(Mean([i \in 1..Len(interactions) |-> interactions[i].response_length])),
      concepts_explored |-> Cardinality(ToSet(AllConcepts(interactions))),
      concept_diversity |->
          IF AllConcepts(interactions) # <<>>
          THEN Round2(Rat(Cardinality(ToSet(AllConcepts(interactions))),
                          Len(AllConcepts(interactions))))
          ELSE Zero,
      engagement_score |-> CalculateEngagementScore(interactions) ]

\* sorted(nums)
Sorted(nums) ==
    LET order == AscendingOrder([i \in 1..Len(nums) |-> Rat(nums[i], 1)])
    IN  [k \in 1..Len(nums) |-> nums[order[k]]]

\* _calculate_consistency_score; the timestamps count half hours, the
\* intervals are in hours
CalculateConsistencyScore(timestamps) ==
    IF Len(timestamps) < 2 THEN Zero
    ELSE LET sorted_timestamps == Sorted(timestamps)
             intervals == [i \in 1..(Len(timestamps) - 1) |->
                              Rat(sorted_timestamps[i + 1] - sorted_timestamps[i], 2)]
             avg_interval == RatMean(intervals)
             interval_variance == IF Len(intervals) > 1 THEN RatVariance(intervals) ELSE Zero
             consistency ==
                 IF RatLess(Zero, avg_interval)
                 THEN RatDiv(Rat(1, 1),
                             RatAdd(Rat(1, 1),
                                    RatDiv(interval_variance,
                                           RatMul(avg_interval, avg_interval))))
                 ELSE Zero
         IN  Round2(consistency)

\* generate_student_analytics, with the engagement metrics and the
\* consistency score of its analytics
GenerateStudentAnalytics(student_id, time_period) ==
    LET student_interactions == GetStudentInteractions(student_id, time_period)
    IN  IF student_interactions = <<>>
        THEN [ student_id |-> student_id,
               time_period |-> time_period,
               message |-> "No interactions found for this period",
               analytics |-> EmptyDict ]
        ELSE [ student_id |-> student_id,
               time_period |-> time_period,
               analytics |->
                   [ engagement |-> CalculateEngagementMetrics(student_interactions),
                     interaction_patterns |->
                         [ consistency_score |->
                               CalculateConsistencyScore(
                                   [i \in 1..Len(student_interactions) |->
                                       student_interactions[i].timestamp]) ] ] ]

\* the students the model asks about; one of them was never seen
AskedStudents == StudentIds \cup {"s3"}

-----------------------------------------------------------------------------
(* AggregationAgent: learning progress *)

\* difficulty_levels
DifficultyLevels == [easy |-> 1, medium |-> 2, hard |-> 3]

\* difficulty_levels.get(level, 2)
DifficultyOf(level) ==
    IF level \in DOMAIN DifficultyLevels THEN DifficultyLevels[level] ELSE DifficultyLevels.medium

\* sorted(interactions, key=timestamp)
SortByTimestamp(interactions) ==
    LET order == AscendingOrder([i \in 1..Len(interactions) |->
                                    Rat(interactions[i].timestamp, 1)])
    IN  [k \in 1..Len(interactions) |-> interactions[order[k]]]

\* the trend of a progression of at least 3 points, with the mean of all
\* points as the earlier average
TrendOf_AllAsEarlier(difficulty_progression) ==
    LET recent_avg == Mean(LastK(difficulty_progression, 3))
        earlier_avg == Mean(difficulty_progression)
    IN  IF RatLess(RatMul(earlier_avg, Rat(11, 10)), recent_avg) THEN "advancing"
        ELSE IF RatLess(recent_avg, RatMul(earlier_avg, Rat(9, 10))) THEN "reviewing"
        ELSE "stable"

\* the trend of a progression of at least 3 points
TrendOf(difficulty_progression) ==
    LET n == Len(difficulty_progression)
        recent_avg == Mean(LastK(difficulty_progression, 3))
        earlier_avg == IF n > 3 THEN Mean(SubSeq(difficulty_progression, 1, n - 3))
                       ELSE Rat(difficulty_progression[1], 1)
    IN  IF RatLess(RatMul(earlier_avg, Rat(11, 10)), recent_avg) THEN "advancing"
        ELSE IF RatLess(recent_avg, RatMul(earlier_avg, Rat(9, 10))) THEN "reviewing"
        ELSE "stable"

\* _calculate_learning_progress
CalculateLearningProgress(interactions) ==
    LET sorted_interactions == SortByTimestamp(interactions)
        difficulty_progression ==
            [i \in 1..Len(interactions) |-> DifficultyOf(sorted_interactions[i].difficulty_level)]
    IN  IF Len(interactions) < 2
        THEN [message |-> "Insufficient data for progress analysis"]
        ELSE [ progress_trend |-> IF Len(difficulty_progression) >= 3
                                  THEN TrendOf(difficulty_progression)
                                  ELSE "insufficient_data",
               difficulty_progression |-> difficulty_progression,
               avg_difficulty |-> Round2(Mean(difficulty_progression)),
               concept_mastery |-> Occurrences(AllConcepts(sorted_interactions)),
               learning_velocity |->
                   Rat(Cardinality(ToSet(AllConcepts(sorted_interactions))),
                       Len(sorted_interactions)) ]

\* data points per student
MaxPoints == 5

\* the difficulty levels of the events
LevelNames == {"easy", "medium", "hard"}

\* the interactions of one student as log_interaction stores them, one per
\* half hour, with the given difficulty levels
ProgressLog(levels) ==
    [ n \in 1..Len(levels) |->
        InteractionData([PlainCall EXCEPT !.response.difficulty_level = levels[n]], n, n) ]

\* _calculate_learning_progress on the interactions of a student with the
\* given difficulty levels
CalculateProgress(levels) ==
    /\ progress.op = "none"
    /\ progress' = [ op |-> "_calculate_learning_progress",
                     levels |-> levels,
                     value |-> CalculateLearningProgress(ProgressLog(levels)) ]
    /\ UNCHANGED <<aggVars, storeVars, takeVars, stepVars,
                   faq_questions, question_groups, assessed, health, reply>>

-----------------------------------------------------------------------------
(* Consumer-side queries *)

\* _calculate_class_engagement, for a list with interactions
CalculateClassEngagement(interactions) ==
    LET students == {interactions[i].student_id : i \in 1..Len(interactions)}
        sessions == SessionsOf(interactions)
    IN  [ total_students |-> Cardinality(students),
          total_sessions |-> Cardinality(sessions),
          total_interactions |-> Len(interactions),
          avg_interactions_per_student |->
              Round2(Rat(Len(interactions), Cardinality(students))),
          avg_sessions_per_student |->
              Round2(Rat(Cardinality(sessions), Cardinality(students))),
          class_engagement_score |-> CalculateEngagementScore(interactions) ]

\* _analyze_concept_distribution, its counts
AnalyzeConceptDistribution(interactions) ==
    [ total_concept_instances |-> Len(AllConcepts(interactions)),
      unique_concepts |-> Cardinality(ToSet(AllConcepts(interactions))),
      concept_distribution |-> Occurrences(AllConcepts(interactions)) ]

\* generate_class_analytics, with the engagement overview and the concept
\* distribution of its class analytics
GenerateClassAnalytics(student_ids, time_period) ==
    LET student_analytics ==
            [student_id \in ToSet(student_ids) |->
                GenerateStudentAnalytics(student_id, time_period)]
        class_interactions ==
            Flatten([k \in 1..Len(student_ids) |->
                        GetStudentInteractions(student_ids[k], time_period)])
    IN  IF class_interactions = <<>>
        THEN [ class_analytics |->
                   [message |-> "No interactions found for this class and period"] ]
        ELSE [ class_analytics |->
                   [ total_students |-> Len(student_ids),
                     total_interactions |-> Len(class_interactions),
                     time_period |-> time_period,
                     engagement_overview |-> CalculateClassEngagement(class_interactions),
                     concept_distribution |-> AnalyzeConceptDistribution(class_interactions) ],
               individual_analytics |-> student_analytics ]

\* metrics[period_name] of get_system_performance_metrics
PeriodMetrics(logs, period_start) ==
    LET period_interactions ==
            Select(logs, [i \in 1..Len(logs) |-> logs[i].timestamp >= period_start])
    IN  IF period_interactions # <<>>
        THEN [ total_interactions |-> Len(period_interactions),
               unique_students |-> Cardinality({period_interactions[i].student_id :
                                                   i \in 1..Len(period_interactions)}),
               unique_sessions |-> Cardinality(SessionsOf(period_interactions)),
               avg_response_length |->
                   Mean([i \in 1..Len(period_interactions) |->
                            period_interactions[i].response_length]),
               concept_coverage |-> Cardinality(ToSet(AllConcepts(period_interactions))),
               engagement_score |-> CalculateEngagementScore(period_interactions) ]
        ELSE [ total_interactions |-> 0, message |-> "No interactions in this period" ]

\* get_system_performance_metrics; the periods of 1, 24 and 168 hours
GetSystemPerformanceMetrics(logs, current_time) ==
    [ performance_metrics |->
          [ last_hour |-> PeriodMetrics(logs, current_time - HourWindow),
            last_day  |-> PeriodMetrics(logs, current_time - DayWindow),
            last_week |-> PeriodMetrics(logs, current_time - WeekWindow) ],
      system_health |-> AssessSystemHealth(logs, current_time) ]

\* a read d[k] of a defaultdict(list): a key that is missing is created
AfterIndex(d, k) == IF k \in DOMAIN d THEN d ELSE DictPut(d, k, <<>>)

\* a read d.get(k, default) of a defaultdict: the dict stays as it is
AfterGet(d, k) == d

\* the arguments the model queries with
QueriedStudents == {"s1", "s3"}

QueriedPeriods == {"day", "week"}

QueriedClasses == {<<"s1", "s3">>}

QueriedFilters == {None, "s1", "s3"}

QueriedQuestions == {q \in StoreQueries : q.student_context.recent_concepts # <<>>}

\* generate_student_analytics(student_id, time_period)
QueryStudentAnalytics(student_id, time_period) ==
    /\ reply' = [ op |-> "generate_student_analytics",
                  args |-> <<student_id, time_period>>,
                  value |-> GenerateStudentAnalytics(student_id, time_period) ]
    /\ UNCHANGED <<aggVars, storeVars, takeVars, stepVars,
                   faq_questions, question_groups, assessed, health, progress>>

\* generate_class_analytics(student_ids, time_period)
QueryClassAnalytics(student_ids, time_period) ==
    /\ reply' = [ op |-> "generate_class_analytics",
                  args |-> <<student_ids, time_period>>,
                  value |-> GenerateClassAnalytics(student_ids, time_period) ]
    /\ UNCHANGED <<aggVars, storeVars, takeVars, stepVars,
                   faq_questions, question_groups, assessed, health, progress>>

\* get_frequently_asked_questions()
QueryFaq ==
    /\ reply' = [ op |-> "get_frequently_asked_questions",
                  args |-> <<DefaultFaqLimit, None>>,
                  value |-> GetFrequentlyAskedQuestions(interaction_logs,
                                                        DefaultFaqLimit, None) ]
    /\ UNCHANGED <<aggVars, storeVars, takeVars, stepVars,
                   faq_questions, question_groups, assessed, health, progress>>

\* get_system_performance_metrics()
QuerySystemMetrics ==
    /\ reply' = [ op |-> "get_system_performance_metrics",
                  args |-> <<>>,
                  value |-> GetSystemPerformanceMetrics(interaction_logs, now) ]
    /\ UNCHANGED <<aggVars, storeVars, takeVars, stepVars,
                   faq_questions, question_groups, assessed, health, progress>>

\* get_relevant_insights(student_context, current_question)
QueryInsights(q) ==
    /\ reply' = [ op |-> "get_relevant_insights",
                  args |-> q,
                  value |-> GetRelevantInsights(q.student_context, q.current_question,
                                                DefaultLimit) ]
    /\ UNCHANGED <<aggVars, storeVars, takeVars, stepVars,
                   faq_questions, question_groups, assessed, health, progress>>

\* get_success_patterns(student_id): with a student filter it reads the
\* defaultdict success_patterns by get, without one it walks its values
QuerySuccessPatterns(student_id) ==
    /\ reply' = [ op |-> "get_success_patterns",
                  args |-> student_id,
                  value |-> GetSuccessPatterns(success_patterns, student_id, None) ]
    /\ success_patterns' = IF student_id \notin {None, ""}
                           THEN AfterGet(success_patterns, student_id)
                           ELSE success_patterns
    /\ UNCHANGED <<aggVars, storeVars, session_summaries, result, analyses, analysed,
                   stepVars, faq_questions, question_groups, assessed, health, progress>>

InitAgg ==
    /\ now = 0
    /\ interaction_logs = <<>>
    /\ student_metrics = EmptyDict
    /\ system_metrics = EmptyDict
    /\ learning_patterns = EmptyDict
    /\ call = [student_id |-> None, session_id |-> None, outcome |-> "none", k |-> 0]
    /\ history = <<>>
    /\ asked = <<>>
    /\ ticks = 0

InitStore ==
    /\ heap = <<>>
    /\ rag_store = <<>>
    /\ appended = <<>>
    /\ upserts = 0

InitTake ==
    /\ session_summaries = EmptyDict
    /\ success_patterns = EmptyDict
    /\ result = [kind |-> "none"]
    /\ analyses = 0
    /\ analysed = <<>>

InitSteps ==
    /\ pc = Idle
    /\ seen = [logs |-> 0, store |-> 0, patterns |-> 0]

InitFaq ==
    /\ faq_questions = <<>>
    /\ question_groups = <<>>
    /\ assessed = [recent |-> 0, flagged |-> 0, stale |-> 0]
    /\ health = [status |-> "none"]
    /\ reply = [op |-> "none"]
    /\ progress = [op |-> "none"]

Init == InitAgg /\ InitStore /\ InitTake /\ InitSteps /\ InitFaq

Next ==
    \/ \E c \in Calls : LogInteraction(c)
    \/ \E d \in TickSteps : Tick(d)

Spec == Init /\ [][Next]_vars

NextStore == \E s \in Sessions : AnalyzeSession(s.session_id, s.data)

SpecStore == Init /\ [][NextStore]_vars

NextUpsert == \E b \in Batches : UpdateRagStore(b)

SpecUpsert == Init /\ [][NextUpsert]_vars

NextSteps ==
    \/ \E c \in StepCalls : LogAppendStep(c)
    \/ LogMetricsStep
    \/ LogCleanupStep
    \/ \E s \in StepSessions : AnalyzeStartStep(s.session_id, s.data)
    \/ PatternAppendStep
    \/ PatternCutStep
    \/ UpsertStep
    \/ StoreCutStep
    \/ ReadStep

SpecSteps == Init /\ [][NextSteps]_vars

NextFaq == \E question \in QuestionPool : GroupQuestions(question)

SpecFaq == Init /\ [][NextFaq]_vars

NextHealth ==
    \E recent \in 0..MaxRecent, stale \in 0..MaxStale :
        \E flagged \in 0..Min(recent, MaxFlagged) : AssessHealth(recent, flagged, stale)

SpecHealth == Init /\ [][NextHealth]_vars

NextProgress ==
    \E n \in 1..MaxPoints : \E levels \in [1..n -> LevelNames] : CalculateProgress(levels)

SpecProgress == Init /\ [][NextProgress]_vars

\* one analyze_session call on a fresh agent, for every transcript
NextTurns ==
    /\ result.kind = "none"
    /\ \E turns \in Transcripts : AnalyzeSession("t", TranscriptSession(turns))

SpecTurns == Init /\ [][NextTurns]_vars

\* the calls and the sessions of the behaviours that both ingest and analyse
BothCalls == {c \in Calls : c.student_id = "s1" /\ c.session_id \in {"a", "b"}}

BothSessions == {s \in Sessions : s.session_id \in {"x", "y"}}

\* calls, ticks and analyses per behaviour that both ingests and analyses
MaxBoth == 3

NextBoth ==
    /\ Len(history) + ticks + analyses < MaxBoth
    /\ \/ \E c \in BothCalls : LogInteraction(c)
       \/ \E d \in TickSteps : Tick(d)
       \/ \E s \in BothSessions : AnalyzeSession(s.session_id, s.data)

SpecBoth == Init /\ [][NextBoth]_vars

\* calls, ticks and analyses per behaviour that is also queried
MaxChanges == 2

NextQueries ==
    \/ /\ Len(history) + ticks + analyses < MaxChanges
       /\ \/ \E c \in BothCalls : LogInteraction(c)
          \/ \E d \in TickSteps : Tick(d)
          \/ \E s \in BothSessions : AnalyzeSession(s.session_id, s.data)
    \/ \E student_id \in QueriedStudents, time_period \in QueriedPeriods :
          QueryStudentAnalytics(student_id, time_period)
    \/ \E student_ids \in QueriedClasses, time_period \in QueriedPeriods :
          QueryClassAnalytics(student_ids, time_period)
    \/ QueryFaq
    \/ QuerySystemMetrics
    \/ \E q \in QueriedQuestions : QueryInsights(q)
    \/ \E student_id \in QueriedFilters : QuerySuccessPatterns(student_id)

SpecQueries == Init /\ [][NextQueries]_vars

-----------------------------------------------------------------------------
(* Claims about the aggregation agent, checked under Spec *)

\* C1: after every completed log_interaction call, after n ingests the raw
\* log has length min(n, cap) and holds exactly the most recent min(n, cap)
\* ingested events, in order: the oldest are the ones evicted.
C1_RawLogHoldsNewest ==
    /\ Len(interaction_logs) = Min(Len(history), LogCap)
    /\ \A i \in 1..Len(interaction_logs) :
          interaction_logs[i] = history[Len(history) - Len(interaction_logs) + i]

\* more events ingested than the log may hold, and the log is full
C1_Witness ==
    /\ Len(history) > LogCap
    /\ Len(interaction_logs) = LogCap

\* C4: a log_interaction call with an absent student_id or session_id is
\* rejected with a validation failure and leaves the raw log, the student
\* metrics, the learning patterns and the system metrics unchanged.
C4_AbsentIdRejected ==
    [][ (call'.k # call.k /\ (call'.student_id = None \/ call'.session_id = None))
        => /\ call'.outcome = "rejected"
           /\ UNCHANGED <<interaction_logs, student_metrics,
                          learning_patterns, system_metrics>> ]_vars

\* the events of history that belong to a student
EventsOf(student_id) ==
    {i \in 1..Len(history) : history[i].student_id = student_id}

\* C5: for every student, total_interactions is the number of ingests made
\* for the student since start, the concept set and the session set are the
\* unions over all of those ingests, evicted ones included, and the map
\* holds an entry for every student ever ingested.
C5_MetricsCoverAllIngests ==
    /\ DOMAIN student_metrics = {history[i].student_id : i \in 1..Len(history)}
    /\ \A s \in DOMAIN student_metrics :
          /\ student_metrics[s].total_interactions = Cardinality(EventsOf(s))
          /\ student_metrics[s].total_concepts =
                UNION {ToSet(history[i].concepts_covered) : i \in EventsOf(s)}
          /\ student_metrics[s].session_count =
                {history[i].session_id : i \in EventsOf(s)}

\* a student's first event has left the raw log, and the student's concept
\* set is larger than that of any single event still in the log
C5_Witness ==
    \E s \in DOMAIN student_metrics :
        /\ student_metrics[s].total_interactions >= 2
        /\ Len(history) > LogCap
        /\ history[1].student_id = s
        /\ Cardinality(student_metrics[s].session_count) >= 2
        /\ \A i \in 1..Len(interaction_logs) :
              ToSet(interaction_logs[i].concepts_covered) # student_metrics[s].total_concepts

\* C6: the raw log is a contiguous run of the ingestion sequence, and
\* _get_student_interactions returns exactly the student's in-window
\* events of the log, in ingestion order.
C6_ReadsInIngestionOrder ==
    /\ \A i \in 1..Len(interaction_logs) :
          /\ interaction_logs[i] = history[interaction_logs[i].n]
          /\ i > 1 => interaction_logs[i].n = interaction_logs[i - 1].n + 1
    /\ \A s \in StudentIds, p \in TimePeriods :
          LET r == GetStudentInteractions(s, p)
          IN  /\ \A i \in 1..Len(r) : i > 1 => r[i - 1].n < r[i].n
              /\ ToSet(r) = {e \in ToSet(interaction_logs) :
                               /\ e.student_id = s
                               /\ e.timestamp >= now - WindowOf(p)}

\* after an eviction, a student has two events in the month window, in
\* order, of which only the later one is inside the day window
C6_Witness ==
    /\ Len(history) > LogCap
    /\ \E s \in StudentIds :
          /\ Len(GetStudentInteractions(s, "month")) = 2
          /\ Len(GetStudentInteractions(s, "day")) = 1

-----------------------------------------------------------------------------
(* Claims about one upsert into the RAG store, checked under SpecUpsert:   *)
(* in every reachable store, for every candidate the model knows           *)

\* the state in which candidate c, a new dict, is about to be upserted
WithCandidate(c) ==
    [heap |-> Append(heap, c), store |-> rag_store, appended |-> appended]

\* C8: upserting a candidate whose content word overlap with some entry of
\* the store exceeds 0.6 merges it into an existing entry: the store
\* holds the same entries afterwards, and one of them has taken the
\* candidate's source sessions.
C8_OverlapMerges ==
    \A k \in DOMAIN Candidates :
        LET c == Candidates[k]
            after == UpdateRagStoreState(WithCandidate(c), <<Len(heap) + 1>>)
        IN  (\E i \in 1..Len(rag_store) : ContentSimilar(c, heap[rag_store[i]]))
            => /\ after.store = rag_store
               /\ Len(after.store) = Len(rag_store)
               /\ \E i \in 1..Len(rag_store) :
                     after.heap[rag_store[i]].source_sessions
                        = heap[rag_store[i]].source_sessions \o c.source_sessions

\* a full store in which a candidate overlaps in content with the second
\* entry and in concepts with the first
C8_Witness ==
    /\ Len(rag_store) = StoreCap
    /\ \E k \in DOMAIN Candidates :
          /\ ContentSimilar(Candidates[k], heap[rag_store[2]])
          /\ ~ContentSimilar(Candidates[k], heap[rag_store[1]])
          /\ ConceptSimilar(Candidates[k], heap[rag_store[1]])

\* C9: upserting a candidate that has word overlap at most 0.6 and concept
\* Jaccard at most 0.7 with every entry of the store appends it, the store
\* growing by exactly that entry before the cut; a candidate with empty
\* content and no concepts is always appended.
C9_DissimilarAppends ==
    \A k \in DOMAIN Candidates :
        LET c == Candidates[k]
            id == Len(heap) + 1
            after == UpsertAll(WithCandidate(c), <<id>>)
        IN  ( \/ (c.content = "" /\ c.concepts = <<>>)
              \/ \A i \in 1..Len(rag_store) :
                    /\ ~ContentSimilar(c, heap[rag_store[i]])
                    /\ ~ConceptSimilar(c, heap[rag_store[i]]) )
            => /\ after.store = Append(rag_store, id)
               /\ after.heap = Append(heap, c)

\* the store holds an entry without content and concepts and another one
\* that shares a concept with a candidate, Jaccard 1/3, without merging
C9_Witness ==
    /\ \E i \in 1..Len(rag_store) :
          heap[rag_store[i]].content = "" /\ heap[rag_store[i]].concepts = <<>>
    /\ \E i \in 1..Len(rag_store), k \in DOMAIN Candidates :
          /\ ToSet(Candidates[k].concepts) \cap ToSet(heap[rag_store[i]].concepts) # {}
          /\ \A j \in 1..Len(rag_store) :
                /\ ~ContentSimilar(Candidates[k], heap[rag_store[j]])
                /\ ~ConceptSimilar(Candidates[k], heap[rag_store[j]])

-----------------------------------------------------------------------------
(* Claims about analyze_session, checked under SpecStore *)

\* C2: after every completed analyze_session call the RAG store has at most
\* cap entries, and it holds the newest entries ever appended, in the
\* order they were appended: what a batch pushes out is the front.
C2_StoreHoldsNewest ==
    /\ Len(rag_store) <= StoreCap
    /\ Len(rag_store) = Min(Len(appended), StoreCap)
    /\ \A i \in 1..Len(rag_store) :
          rag_store[i] = appended[Len(appended) - Len(rag_store) + i]

\* sessions have appended at least two entries more than the store holds
C2_Witness ==
    /\ analyses > 0
    /\ Len(appended) >= StoreCap + 2
    /\ Len(rag_store) = StoreCap

\* C7: analyze_session on a session without interactions returns a
\* takeaway with effectiveness score 0.0, no breakthroughs and no
\* successful methods.
C7_EmptySessionTakeaway ==
    (result.kind = "returned" /\ result.turns = 0)
    => /\ "effectiveness_score" \in DOMAIN result.value
       /\ result.value.effectiveness_score = Zero
       /\ "breakthroughs" \in DOMAIN result.value
       /\ result.value.breakthroughs = <<>>
       /\ "successful_methods" \in DOMAIN result.value
       /\ result.value.successful_methods = <<>>

-----------------------------------------------------------------------------
(* Claims about retrieval, checked under SpecUpsert: in every reachable    *)
(* store, for every question and limit the model knows                     *)

\* the relevance of the store entry at position i for query q
RelevanceAt(i, q) ==
    CalculateRelevanceScore(heap[rag_store[i]], ExtractKeyTerms(q.current_question),
                            q.student_context.recent_concepts)

\* C10: get_relevant_insights returns at most limit entries, each with a
\* relevance above 0.3, in non-increasing relevance order, each one an
\* entry of the store, and every store entry that is more relevant than
\* the last returned one is returned.
C10_TopByRelevance ==
    \A q \in Queries :
        LET terms == ExtractKeyTerms(q.current_question)
            all == {<<i, CalculateRelevanceScore(heap[rag_store[i]], terms,
                                                 q.student_context.recent_concepts)>> :
                       i \in 1..Len(rag_store)}
            relevant == {e \in all : RatLess(Rat(3, 10), e[2])}
        IN  \A limit \in Limits :
              LET r == GetRelevantInsights(q.student_context, q.current_question, limit)
              IN  /\ Len(r) <= limit
                  /\ Len(r) = Min(limit, Cardinality(relevant))
                  /\ \A k \in 1..Len(r) :
                        /\ RatLess(Rat(3, 10), r[k].relevance_score)
                        /\ k > 1 => ~RatLess(r[k - 1].relevance_score, r[k].relevance_score)
                        /\ \E e \in relevant :
                              /\ heap[rag_store[e[1]]].content = r[k].insight
                              /\ e[2] = r[k].relevance_score
                  /\ Len(r) > 0 =>
                        \A e \in relevant :
                            RatLess(r[Len(r)].relevance_score, e[2])
                            => Cardinality({f \in relevant : f[2] = e[2]})
                                 = Cardinality({k \in 1..Len(r) : r[k].relevance_score = e[2]})

\* a store with two entries of different relevance above 0.3, the less
\* relevant one first, and a third entry below the threshold for another
\* question
C10_Witness ==
    /\ Len(rag_store) >= 2
    /\ \E q \in Queries :
          /\ RatLess(Rat(3, 10), RelevanceAt(1, q))
          /\ RatLess(RelevanceAt(1, q), RelevanceAt(2, q))
          /\ Len(GetRelevantInsights(q.student_context, q.current_question, 1)) = 1
    /\ \E q \in Queries, i \in 1..Len(rag_store) :
          /\ ~RatLess(Rat(3, 10), RelevanceAt(i, q))
          /\ RatLess(Zero, RelevanceAt(i, q))

-----------------------------------------------------------------------------
(* Claims about readers on other threads, checked under SpecSteps *)

-----------------------------------------------------------------------------
(* Claims about retrieval from a store that sessions have filled, checked  *)
(* under SpecStore                                                         *)

\* the query q yields no key term and names no concept of a store entry
Blank(q) ==
    /\ ExtractKeyTerms(q.current_question) = <<>>
    /\ \A i \in 1..Len(rag_store) :
          ToSet(q.student_context.recent_concepts) \cap ToSet(heap[rag_store[i]].concepts) = {}

\* C11: whatever the store holds, get_relevant_insights returns the empty
\* list for a question without key terms from a student whose concepts
\* overlap no entry's concepts.
C11_BlankQueryFindsNothing ==
    \A q \in StoreQueries :
        Blank(q) => GetRelevantInsights(q.student_context, q.current_question, DefaultLimit) = <<>>

\* the store holds an entry with a positive success rate, a blank query
\* names concepts, and another query of the pool does find something
C11_Witness ==
    /\ \E i \in 1..Len(rag_store) : RatLess(Zero, SuccessRateOf(heap[rag_store[i]]))
    /\ \E q \in StoreQueries : Blank(q) /\ q.student_context.recent_concepts # <<>>
    /\ \E q \in StoreQueries :
          GetRelevantInsights(q.student_context, q.current_question, DefaultLimit) # <<>>

-----------------------------------------------------------------------------
(* Claims about the FAQ grouping, checked under SpecFaq *)

\* C12: in _group_similar_questions, any two questions with the same set
\* of concept tags and the same top-3 key terms are placed in the same
\* group, whatever the order or multiplicity of their concept lists.
C12_SameSignatureSameGroup ==
    \A i, j \in 1..Len(faq_questions) :
        ( /\ ToSet(faq_questions[i].concepts) = ToSet(faq_questions[j].concepts)
          /\ Take(KeyTerms(faq_questions[i].question), 3)
               = Take(KeyTerms(faq_questions[j].question), 3) )
        => \E g \in 1..Len(question_groups) :
              /\ faq_questions[i] \in ToSet(question_groups[g].questions)
              /\ faq_questions[j] \in ToSet(question_groups[g].questions)

-----------------------------------------------------------------------------
(* Claims about queries of the aggregation agent, checked under Spec *)

\* the calls, by their position in the ingestion sequence, whose events are
\* in the raw log
Logged == {interaction_logs[k].n : k \in 1..Len(interaction_logs)}

\* the message of call n is a question for get_frequently_asked_questions
IsQuestion(n) == Has(asked[n].message, "?") /\ Len(asked[n].message) > 10

\* the calls n and m have the same concepts and the same top-3 key terms
SameSignature(n, m) ==
    /\ ToSet(asked[n].response.concepts_covered) = ToSet(asked[m].response.concepts_covered)
    /\ Take(KeyTerms(asked[n].message), 3) = Take(KeyTerms(asked[m].message), 3)

\* C13: question text submitted through log_interaction reaches the FAQ
\* clusterer: after two logged interactions whose messages are questions
\* with the same signature, get_frequently_asked_questions returns one FAQ
\* group for them, with frequency 2.
C13_QuestionsReachFaq ==
    \A n, m \in Logged :
        (n < m /\ IsQuestion(n) /\ IsQuestion(m) /\ SameSignature(n, m))
        => \E k \in 1..Len(GetFrequentlyAskedQuestions(interaction_logs, DefaultFaqLimit, None)) :
              LET entry == GetFrequentlyAskedQuestions(interaction_logs, DefaultFaqLimit, None)[k]
              IN  /\ entry.representative_question = asked[n].message
                  /\ entry.frequency = 2

-----------------------------------------------------------------------------
(* Claims about the pattern histories, checked under SpecStore *)

\* C17: get_success_patterns called for a student, or with no filter, when
\* at least one takeaway has been recorded for the filter, returns aggregate
\* statistics (top methods, common breakthrough types, an effectiveness
\* trend) and does not fail.
C17_PatternsAnswered ==
    \A student_id \in PatternFilters :
        SelectedPatterns(success_patterns, student_id, None) # <<>>
        => LET answer == GetSuccessPatterns(success_patterns, student_id, None)
           IN  /\ answer.kind = "returned"
               /\ {"top_methods", "common_breakthroughs", "effectiveness_trends"}
                     \subseteq DOMAIN answer.value

\* the analyses made for a student, in order
AnalysesOf(student_id) ==
    Select(analysed, [i \in 1..Len(analysed) |-> analysed[i].student_id = student_id])

\* C18: after k analyses of sessions with interactions for one student,
\* that student's success-pattern history holds exactly the records of the
\* most recent min(k, cap) analyses, in analysis order, each with that
\* session's id and effectiveness score; it is never longer than the cap.
C18_PatternsHoldNewest ==
    \A student_id \in DOMAIN success_patterns \cup {analysed[i].student_id : i \in 1..Len(analysed)} :
        LET mine == AnalysesOf(student_id)
            kept == ListAt(success_patterns, student_id)
        IN  /\ Len(kept) <= PatternCap
            /\ Len(kept) = Min(Len(mine), PatternCap)
            /\ \A i \in 1..Len(kept) :
                  LET made == mine[Len(mine) - Len(kept) + i]
                  IN  /\ kept[i].session_id = made.session_id
                      /\ kept[i].effectiveness_score = made.effectiveness_score

\* a student has more analyses than the history may hold, of sessions that
\* differ in id and score
C18_Witness ==
    \E student_id \in DOMAIN success_patterns :
        LET mine == AnalysesOf(student_id)
            kept == success_patterns[student_id]
        IN  /\ Len(mine) > PatternCap
            /\ Len(kept) = PatternCap
            /\ mine[1].session_id # kept[1].session_id
            /\ kept[1].effectiveness_score # kept[2].effectiveness_score

-----------------------------------------------------------------------------
(* More claims about one upsert, checked under SpecUpsert *)

\* C20: when an upsert merges a candidate into an existing entry, that
\* entry's source sessions become the set union of its previous source
\* sessions and the candidate's, no session listed twice, its success rate
\* becomes the mean of its previous success rate and the candidate's, and
\* no other store entry changes.
C20_MergeUnitesSessions ==
    \A k \in DOMAIN Candidates :
        LET c == Candidates[k]
            pos == FindSimilarRagEntry(WithCandidate(c).heap, rag_store, c)
            after == UpdateRagStoreState(WithCandidate(c), <<Len(heap) + 1>>)
        IN  pos # 0
            => LET old == heap[rag_store[pos]]
                   new == after.heap[rag_store[pos]]
               IN  /\ ToSet(new.source_sessions)
                         = ToSet(old.source_sessions) \cup ToSet(c.source_sessions)
                   /\ Cardinality(ToSet(new.source_sessions)) = Len(new.source_sessions)
                   /\ new.success_rate
                         = RatMul(RatAdd(SuccessRateOf(old), SuccessRateOf(c)), Rat(1, 2))
                   /\ after.store = rag_store
                   /\ \A i \in 1..Len(rag_store) :
                         i # pos => after.heap[rag_store[i]] = heap[rag_store[i]]

-----------------------------------------------------------------------------
(* Claims about the health check, checked under SpecHealth *)

\* C19: _assess_system_health reports status critical whenever the
\* error-flagged interactions of the last hour exceed 10% of the last hour's
\* interaction count; otherwise warning when that count is 0 or greater
\* than 100; otherwise healthy.
C19_HealthStatus ==
    health.status # "none"
    => health.status =
          IF 10 * assessed.flagged > assessed.recent THEN "critical"
          ELSE IF assessed.recent = 0 \/ assessed.recent > HighVolume THEN "warning"
          ELSE "healthy"

\* a high volume with a high error rate beside older events was assessed
C19_Witness ==
    /\ health.status = "critical"
    /\ assessed.recent > HighVolume
    /\ assessed.stale > 0
    /\ health.recent_interaction_count = assessed.recent

-----------------------------------------------------------------------------
(* Claims about student analytics, checked under Spec *)

\* the student's events that are in the raw log and inside the period window
InWindow(student_id, time_period) ==
    {i \in 1..Len(interaction_logs) :
        /\ interaction_logs[i].student_id = student_id
        /\ interaction_logs[i].timestamp >= now - WindowOf(time_period)}

\* the distinct concepts among those events
ConceptsInWindow(student_id, time_period) ==
    UNION {ToSet(interaction_logs[i].concepts_covered) : i \in InWindow(student_id, time_period)}

\* C15, as stated: generate_student_analytics(student, period) reports
\* total_interactions equal to the number of that student's events that are
\* in the raw log and inside the period window, and concepts_explored equal
\* to the number of distinct concepts among those events.
C15_AnalyticsCount ==
    \A student_id \in AskedStudents, time_period \in TimePeriods :
        LET analytics == GenerateStudentAnalytics(student_id, time_period).analytics
        IN  /\ "engagement" \in DOMAIN analytics
            /\ analytics.engagement.total_interactions
                  = Cardinality(InWindow(student_id, time_period))
            /\ analytics.engagement.concepts_explored
                  = Cardinality(ConceptsInWindow(student_id, time_period))

\* C15, amended: when at least one event of the student is in the raw log
\* and inside the period window, generate_student_analytics reports
\* total_interactions equal to the number of those events and
\* concepts_explored equal to the number of distinct concepts among them;
\* with no such event it reports no counts: its analytics are empty and it
\* carries a message.
C15_AnalyticsCountWhenSeen ==
    \A student_id \in AskedStudents, time_period \in TimePeriods :
        LET answer == GenerateStudentAnalytics(student_id, time_period)
        IN  IF InWindow(student_id, time_period) # {}
            THEN /\ answer.analytics.engagement.total_interactions
                       = Cardinality(InWindow(student_id, time_period))
                 /\ answer.analytics.engagement.concepts_explored
                       = Cardinality(ConceptsInWindow(student_id, time_period))
            ELSE /\ answer.analytics = EmptyDict
                 /\ "message" \in DOMAIN answer

\* a student has two events in the week window that share a concept, and
\* has none in the day window
C15_Witness ==
    \E student_id \in AskedStudents :
        /\ Cardinality(InWindow(student_id, "week")) = 2
        /\ Cardinality(ConceptsInWindow(student_id, "week")) \in 1..2
        /\ Len(AllConcepts(GetStudentInteractions(student_id, "week")))
              > Cardinality(ConceptsInWindow(student_id, "week"))
        /\ InWindow(student_id, "day") = {}

-----------------------------------------------------------------------------
(* Claims about ingests and analyses together, checked under SpecBoth *)

\* x is a score: 0 <= x <= 1
InUnit(x) == ~RatLess(x, Zero) /\ ~RatLess(Rat(1, 1), x)

\* timestamp lists longer than the scaled raw log holds for one student
StampLists ==
    { <<0, 1, 3>>, <<0, 0, 1>>, <<3, 1, 0>>, <<2, 2, 2>>, <<0, 1, 2, 3>>,
      <<0, 0, 0, 7>>, <<0, 5, 6, 6, 50>> }

\* their consistency scores
StampScores == [timestamps \in StampLists |-> CalculateConsistencyScore(timestamps)]

\* C14: after any sequence of ingests and session analyses, every score is
\* within [0,1]: the effectiveness score of every takeaway, the success rate
\* of every entry in the insight store (including after merges), the
\* relevance score of every retrieved insight, and the engagement and
\* consistency scores of every student analytics result.
C14_ScoresInUnit ==
    /\ \A k \in DOMAIN session_summaries : InUnit(session_summaries[k].effectiveness_score)
    /\ (result.kind = "returned" /\ result.turns > 0)
          => InUnit(result.value.effectiveness_score)
    /\ \A i \in 1..Len(rag_store) : InUnit(SuccessRateOf(heap[rag_store[i]]))
    /\ \A q \in StoreQueries :
          \E found \in {GetRelevantInsights(q.student_context, q.current_question,
                                            DefaultLimit)} :
              \A k \in 1..Len(found) :
                  InUnit(found[k].relevance_score) /\ InUnit(found[k].success_rate)
    /\ \A student_id \in AskedStudents, time_period \in TimePeriods :
          \E answer \in {GenerateStudentAnalytics(student_id, time_period)} :
              "engagement" \in DOMAIN answer.analytics
              => /\ InUnit(answer.analytics.engagement.engagement_score)
                 /\ InUnit(answer.analytics.interaction_patterns.consistency_score)
    /\ \A timestamps \in StampLists : InUnit(StampScores[timestamps])

\* events were ingested and sessions analysed: the store holds a merged
\* entry, an insight is retrieved, a student has a positive engagement
\* score, and uneven intervals give a consistency score strictly between 0
\* and 1
C14_Witness ==
    /\ \E i \in 1..Len(rag_store) : Len(heap[rag_store[i]].source_sessions) > 1
    /\ \E q \in StoreQueries :
          GetRelevantInsights(q.student_context, q.current_question, DefaultLimit) # <<>>
    /\ \E time_period \in TimePeriods :
          LET answer == GenerateStudentAnalytics("s1", time_period)
          IN  /\ "engagement" \in DOMAIN answer.analytics
              /\ RatLess(Zero, answer.analytics.engagement.engagement_score)
    /\ \E timestamps \in StampLists :
          /\ RatLess(Zero, StampScores[timestamps])
          /\ RatLess(StampScores[timestamps], Rat(1, 1))

-----------------------------------------------------------------------------
(* Claims about the queries, checked under SpecQueries *)

\* C16: consumer-side queries are read-only: a step that is no ingest, no
\* clock step and no analysis, that is a step of generate_student_analytics,
\* generate_class_analytics, get_frequently_asked_questions,
\* get_system_performance_metrics, get_relevant_insights or
\* get_success_patterns, leaves the raw log, the student metrics map, the
\* learning-pattern and pattern histories, the system-metrics buckets and
\* the insight store unchanged, also when it asks for a student never seen.
C16_QueriesReadOnly ==
    [][ (Len(history') = Len(history) /\ ticks' = ticks /\ analyses' = analyses)
        => UNCHANGED <<interaction_logs, student_metrics, learning_patterns,
                       success_patterns, system_metrics, rag_store, heap>> ]_vars

\* the pattern histories were asked for a student never seen, while another
\* student has a history and the raw log and the store hold entries
C16_Witness ==
    /\ reply.op = "get_success_patterns"
    /\ reply.args = "s3"
    /\ "s3" \notin DOMAIN success_patterns
    /\ DOMAIN success_patterns # {}
    /\ rag_store # <<>>

-----------------------------------------------------------------------------
(* Claims about the analysis of one transcript, checked under SpecTurns *)

\* the student message of turn j holds an understanding phrase
\* (positions from 1)
Understands(turns, j) ==
    /\ j \in 1..Len(turns)
    /\ HasAny(Lower(turns[j].student_message), {"understand", "got it", "makes sense"})

\* the turns that have such a message among their next two
FollowedByUnderstanding(turns) ==
    {i \in 1..Len(turns) : Understands(turns, i + 1) \/ Understands(turns, i + 2)}

\* C21: when the effectiveness score is at least 0.6, turn i is credited as
\* successful if and only if the student message of turn i+1 or i+2 holds an
\* understanding phrase, for every i, also when two turns are equal: the
\* returned methods are those of exactly these turns; below 0.6 the result
\* is empty.
C21_CreditedIffFollowedByUnderstanding ==
    (result.kind = "returned" /\ result.turns > 0)
    => LET turns == result.interactions
           methods == result.value.successful_methods
       IN  IF RatLess(result.value.effectiveness_score, Rat(6, 10))
           THEN methods = <<>>
           ELSE /\ \A i \in 1..Len(turns) :
                      InteractionLedToSuccess(turns[i], turns)
                      <=> i \in FollowedByUnderstanding(turns)
                /\ {methods[k].method : k \in 1..Len(methods)}
                   = {turns[i].response_format \o "_explanation" :
                         i \in FollowedByUnderstanding(turns)}

\* the student message of turn i expresses understanding (positions from 1)
ExpressesUnderstanding(turns, i) ==
    HasAny(Lower(turns[i].student_message), BreakthroughIndicators)

\* the trigger that an agent response stands for
TriggerAfter(agent_response) ==
    IF Has(Lower(agent_response), "step") THEN "step_by_step_explanation"
    ELSE IF Has(Lower(agent_response), "example") THEN "concrete_example"
    ELSE IF Has(Lower(agent_response), "video") THEN "visual_content"
    ELSE "detailed_explanation"

\* the understanding breakthroughs among bs that carry the index of turn i
UnderstandingAt(bs, i) ==
    {k \in 1..Len(bs) : /\ bs[k].type = "understanding_breakthrough"
                        /\ bs[k].interaction_index = i - 1}

\* the breakthroughs are listed in non-decreasing turn index
InTurnOrder(bs) ==
    \A k \in 1..(Len(bs) - 1) : bs[k].interaction_index <= bs[k + 1].interaction_index

\* C24 as stated: every turn whose student message holds an understanding
\* phrase yields exactly one understanding breakthrough with that turn's
\* index, whose trigger is one of step_by_step_explanation, concrete_example,
\* visual_content and detailed_explanation, decided by the agent response of
\* the previous turn; breakthroughs are listed in non-decreasing turn index.
C24_TriggerFromPreviousTurn ==
    (result.kind = "returned" /\ result.turns > 0)
    => LET turns == result.interactions
           bs == result.value.breakthroughs
       IN  /\ \A i \in 1..Len(turns) :
                  ExpressesUnderstanding(turns, i)
                  => /\ Cardinality(UnderstandingAt(bs, i)) = 1
                     /\ \A k \in UnderstandingAt(bs, i) :
                           /\ bs[k].trigger \in {"step_by_step_explanation", "concrete_example",
                                                 "visual_content", "detailed_explanation"}
                           /\ i > 1 => bs[k].trigger = TriggerAfter(turns[i - 1].agent_response)
           /\ InTurnOrder(bs)

\* C24, amended: as above for every turn but the first; the first turn of a
\* transcript has no previous turn and its breakthrough has the trigger
\* initial_explanation.
C24_TriggerFromPreviousTurnOrInitial ==
    (result.kind = "returned" /\ result.turns > 0)
    => LET turns == result.interactions
           bs == result.value.breakthroughs
       IN  /\ \A i \in 1..Len(turns) :
                  ExpressesUnderstanding(turns, i)
                  => /\ Cardinality(UnderstandingAt(bs, i)) = 1
                     /\ \A k \in UnderstandingAt(bs, i) :
                           bs[k].trigger = IF i = 1 THEN "initial_explanation"
                                           ELSE TriggerAfter(turns[i - 1].agent_response)
           /\ InTurnOrder(bs)

\* a transcript was analysed that has a breakthrough in its first turn and
\* later ones after a response with "Step" and after one with none of the words
C24_Witness ==
    /\ result.kind = "returned"
    /\ result.turns > 2
    /\ \E k \in 1..Len(result.value.breakthroughs) :
          /\ result.value.breakthroughs[k].interaction_index = 0
          /\ result.value.breakthroughs[k].trigger = "initial_explanation"
    /\ \E k \in 1..Len(result.value.breakthroughs) :
          result.value.breakthroughs[k].trigger = "step_by_step_explanation"
    /\ \E k \in 1..Len(result.value.breakthroughs) :
          result.value.breakthroughs[k].trigger = "detailed_explanation"

-----------------------------------------------------------------------------
(* Claims about the learning progress, checked under SpecProgress *)

\* the data points of the levels: easy 1, medium 2, hard 3
PointsOf(levels) ==
    [i \in 1..Len(levels) |->
        IF levels[i] = "easy" THEN 1 ELSE IF levels[i] = "medium" THEN 2 ELSE 3]

\* advancing, reviewing or stable, by the mean of the recent points against
\* the earlier mean
Compare(recent, earlier) ==
    IF RatLess(RatMul(earlier, Rat(11, 10)), recent) THEN "advancing"
    ELSE IF RatLess(recent, RatMul(earlier, Rat(9, 10))) THEN "reviewing"
    ELSE "stable"

\* C23 as stated: with fewer than 3 data points the progress trend is
\* insufficient_data; with 3 or more it is advancing if the mean of the last
\* 3 exceeds 1.1 times the mean of all the points before them, reviewing if
\* it is below 0.9 times that mean, and stable otherwise (with exactly 3
\* points, where no point is before them, one of the three).
C23_ProgressTrend ==
    progress.op # "none"
    => LET points == PointsOf(progress.levels)
           n == Len(points)
       IN  /\ "progress_trend" \in DOMAIN progress.value
           /\ n < 3 => progress.value.progress_trend = "insufficient_data"
           /\ n = 3 => progress.value.progress_trend \in {"advancing", "reviewing", "stable"}
           /\ n > 3 => progress.value.progress_trend
                          = Compare(Mean(LastK(points, 3)), Mean(SubSeq(points, 1, n - 3)))

\* C23, amended: with one data point there is no progress trend but the
\* message that the data is insufficient; with 2 the trend is
\* insufficient_data; with exactly 3 the mean of the three is compared with
\* the first of them, with more than 3 with the mean of the points before
\* the last 3.
C23_ProgressTrendByCount ==
    progress.op # "none"
    => LET points == PointsOf(progress.levels)
           n == Len(points)
       IN  /\ n < 2 => progress.value = [message |-> "Insufficient data for progress analysis"]
           /\ n = 2 => progress.value.progress_trend = "insufficient_data"
           /\ n = 3 => progress.value.progress_trend
                          = Compare(Mean(points), Rat(points[1], 1))
           /\ n > 3 => progress.value.progress_trend
                          = Compare(Mean(LastK(points, 3)), Mean(SubSeq(points, 1, n - 3)))

\* a progress was computed from more than 3 points and is not stable
C23_Witness ==
    /\ progress.op # "none"
    /\ Len(progress.levels) > 3
    /\ progress.value.progress_trend = "reviewing"

\* the recommendations that answer a weak sub-indicator: all but the one
\* that names the best method
Targeted(recommendations) ==
    {k \in 1..Len(recommendations) :
        ~(Len(recommendations[k]) >= 14 /\ SubSeq(recommendations[k], 1, 14) = "Continue using")}

\* the sub-indicators below 0.6
WeakIndicators(indicators) ==
    {name \in DOMAIN indicators : RatLess(indicators[name], Rat(6, 10))}

\* C25: in the recommendations of a takeaway each of the four effectiveness
\* sub-indicators (student engagement, concept understanding, question
\* resolution, learning progression) below 0.6 triggers exactly one targeted
\* recommendation and one at or above 0.6 triggers none: there are as many
\* targeted recommendations as sub-indicators below 0.6.
C25_OneRecommendationPerWeakIndicator ==
    (result.kind = "returned" /\ result.turns > 0)
    => LET indicators == AnalyzeSessionEffectiveness(result.interactions).indicators
       IN  /\ DOMAIN indicators = {"student_engagement", "concept_understanding",
                                   "question_resolution", "learning_progression"}
           /\ Cardinality(Targeted(result.value.recommendations))
              = Cardinality(WeakIndicators(indicators))

\* a list of methods has at most one entry per method name and is ordered by
\* score, the best first
RankedAndDeduplicated(methods) ==
    /\ \A j, k \in 1..Len(methods) : methods[j].method = methods[k].method => j = k
    /\ \A k \in 1..(Len(methods) - 1) :
          ~RatLess(methods[k].effectiveness_score, methods[k + 1].effectiveness_score)

\* ranked holds, for every method name of methods, the best score of that name
BestPerName(ranked, methods) ==
    /\ {ranked[k].method : k \in 1..Len(ranked)} = {methods[i].method : i \in 1..Len(methods)}
    /\ \A k \in 1..Len(ranked), i \in 1..Len(methods) :
          methods[i].method = ranked[k].method
          => ~RatLess(ranked[k].effectiveness_score, methods[i].effectiveness_score)

\* lists of methods whose scores differ, as _rank_and_deduplicate_methods
\* may be given them
MethodLists ==
    LET pool == { [method |-> name, effectiveness_score |-> score] :
                    name \in {"text_explanation", "video_explanation"},
                    score \in {Rat(6, 10), Rat(8, 10), Rat(1, 1)} }
    IN  UNION {[1..n -> pool] : n \in 0..3}

\* what _rank_and_deduplicate_methods makes of each of them
RankedLists == [methods \in MethodLists |-> RankAndDeduplicateMethods(methods)]

\* each of them is ranked, deduplicated and holds the best of every name
RankedListsHold ==
    \A methods \in MethodLists :
        /\ RankedAndDeduplicated(RankedLists[methods])
        /\ BestPerName(RankedLists[methods], methods)

\* the turns of a transcript that _identify_successful_methods credits
Credited(turns) == {i \in 1..Len(turns) : InteractionLedToSuccess(turns[i], turns)}

\* C27: the successful methods of a takeaway hold at most one entry per
\* method name, the best-scoring instance of that name, and are ordered by
\* score in non-increasing order; the same holds for what the ranking makes
\* of any list of methods.
C27_MethodsRankedAndDeduplicated ==
    /\ (result.kind = "returned" /\ result.turns > 0)
       => LET methods == result.value.successful_methods
          IN  /\ RankedAndDeduplicated(methods)
              /\ \A k \in 1..Len(methods) :
                    methods[k].effectiveness_score = result.value.effectiveness_score
    /\ RankedListsHold

\* a takeaway whose methods have two names, for which more turns were
\* credited than there are names
C27_Witness ==
    /\ result.kind = "returned"
    /\ result.turns > 0
    /\ Len(result.value.successful_methods) = 2
    /\ Cardinality({result.interactions[i] : i \in Credited(result.interactions)}) > 2

-----------------------------------------------------------------------------
(* Claims about the learning-pattern histories, checked under Spec *)

\* the ingests of a student, as positions of history in ingestion order
IngestsOf(student_id) ==
    Where([i \in 1..Len(history) |-> history[i].student_id = student_id], 1)

\* C28: after every completed log_interaction call each student's
\* learning-pattern history has at most LearnCap (50 in the code) entries
\* and holds the most recent min(n, LearnCap) of the student's n ingests, in
\* ingestion order.
C28_LearningPatternsHoldNewest ==
    /\ DOMAIN learning_patterns = {history[i].student_id : i \in 1..Len(history)}
    /\ \A student_id \in DOMAIN learning_patterns :
          LET patterns == learning_patterns[student_id]
              newest == LastK(IngestsOf(student_id),
                              Min(Len(IngestsOf(student_id)), LearnCap))
          IN  /\ Len(patterns) <= LearnCap
              /\ Len(patterns) = Len(newest)
              /\ \A k \in 1..Len(patterns) :
                    /\ patterns[k].n = newest[k]
                    /\ patterns[k].timestamp = history[newest[k]].timestamp
                    /\ patterns[k].concepts = history[newest[k]].concepts_covered
                    /\ patterns[k].difficulty = history[newest[k]].difficulty_level

\* a student has more ingests than the history holds: the first one has
\* left it, and the entries that stayed differ
C28_Witness ==
    /\ \E student_id \in DOMAIN learning_patterns :
          /\ Len(IngestsOf(student_id)) > LearnCap
          /\ Len(learning_patterns[student_id]) = LearnCap
          /\ learning_patterns[student_id][1].n # IngestsOf(student_id)[1]
          /\ learning_patterns[student_id][1].difficulty
                # learning_patterns[student_id][LearnCap].difficulty

-----------------------------------------------------------------------------
(* Claims about stored takeaways, checked under SpecStore *)

\* the insight entries a takeaway carries, as the dicts they are
EntriesOf(h, takeaways) ==
    [k \in 1..Len(takeaways.rag_entries) |-> h[takeaways.rag_entries[k]]]

\* C22: a stored session takeaway is immutable once created: after
\* analyze_session has returned the takeaway of session s, analysing any
\* other session changes no field of the takeaway stored for s, the insight
\* entries it carries included.
C22_TakeawayImmutable ==
    [][ \A s \in DOMAIN session_summaries :
            (analyses' # analyses /\ result'.value.session_id # s)
            => /\ s \in DOMAIN session_summaries'
               /\ session_summaries'[s] = session_summaries[s]
               /\ EntriesOf(heap', session_summaries'[s])
                  = EntriesOf(heap, session_summaries[s]) ]_vars

\* C26: get_success_patterns with a concept filter selects the recorded
\* patterns whose successful methods involve that concept: if a student's
\* recorded takeaway has a successful method covering concept c, then
\* get_success_patterns(student, c) finds at least that pattern and does not
\* report that no patterns were found.
C26_ConceptFilterFindsPattern ==
    \A student_id \in DOMAIN success_patterns :
        \A i \in 1..Len(success_patterns[student_id]) :
            LET pattern == success_patterns[student_id][i]
            IN  \A m \in 1..Len(pattern.successful_methods) :
                    \A c \in ToSet(pattern.successful_methods[m].concepts) :
                        /\ \E k \in 1..Len(SelectedPatterns(success_patterns, student_id, c)) :
                              SelectedPatterns(success_patterns, student_id, c)[k] = pattern
                        /\ GetSuccessPatterns(success_patterns, student_id, c)
                              # [ kind |-> "returned",
                                  value |-> [ message |-> "No success patterns found for the specified criteria",
                                              patterns |-> <<>> ] ]

\* C29: analyze_session on a session with an empty interaction list changes
\* no state: session_summaries gets no entry for that session id, no record
\* is appended to any student's success-pattern history, and the insight
\* store is left unchanged.
C29_EmptySessionChangesNothing ==
    [][ (analyses' # analyses /\ result'.interactions = <<>>)
        => /\ UNCHANGED <<session_summaries, success_patterns, rag_store, heap>>
           /\ result'.value.session_id \notin DOMAIN session_summaries
              => result'.value.session_id \notin DOMAIN session_summaries' ]_vars

\* an empty session was analysed, with an id that has no stored takeaway,
\* after sessions that left takeaways, pattern histories and insights
C29_Witness ==
    /\ result.kind = "returned"
    /\ result.interactions = <<>>
    /\ result.value.session_id \notin DOMAIN session_summaries
    /\ DOMAIN session_summaries # {}
    /\ DOMAIN success_patterns # {}
    /\ rag_store # <<>>

-----------------------------------------------------------------------------
(* Claims about the order of upserts, checked under SpecUpsert *)

\* the positions of the store whose entry exceeds a similarity threshold
\* with candidate c
SimilarTo(c) ==
    {i \in 1..Len(rag_store) :
        ContentSimilar(c, heap[rag_store[i]]) \/ ConceptSimilar(c, heap[rag_store[i]])}

\* the entries that differ between two heaps, among those of the first
ChangedEntries(h, after) == {j \in 1..Len(h) : after[j] # h[j]}

\* C30: each upsert of one candidate modifies at most one store entry, and
\* the merge target is the first entry in store order that exceeds either
\* similarity threshold; candidates of one batch are processed in order
\* against the store as already updated, so a later candidate of a batch
\* merges into an entry appended earlier in the same batch.
C30_FirstSimilarIsTarget ==
    /\ \A k \in DOMAIN Candidates :
          LET c == Candidates[k]
              id == Len(heap) + 1
              after == UpsertOne(WithCandidate(c), id)
              changed == ChangedEntries(heap, after.heap)
          IN  /\ Cardinality(changed) <= 1
              /\ after.heap[id] = c
              /\ IF SimilarTo(c) # {}
                 THEN LET first == CHOOSE i \in SimilarTo(c) : \A j \in SimilarTo(c) : i <= j
                      IN  /\ changed = {rag_store[first]}
                          /\ after.store = rag_store
                          /\ after.heap[rag_store[first]].source_sessions
                                = heap[rag_store[first]].source_sessions \o c.source_sessions
                 ELSE /\ changed = {}
                      /\ after.store = Append(rag_store, id)
    /\ \A k1, k2 \in DOMAIN Candidates :
          LET c1 == Candidates[k1]
              c2 == Candidates[k2]
              id1 == Len(heap) + 1
              id2 == Len(heap) + 2
              after == UpsertAll([heap |-> heap \o <<c1, c2>>, store |-> rag_store,
                                  appended |-> appended], <<id1, id2>>)
          IN  ( /\ SimilarTo(c1) = {}
                /\ SimilarTo(c2) = {}
                /\ ContentSimilar(c2, c1) \/ ConceptSimilar(c2, c1) )
              => /\ after.store = Append(rag_store, id1)
                 /\ after.heap[id1].source_sessions = c1.source_sessions \o c2.source_sessions
                 /\ after.heap[id2] = c2
                 /\ ChangedEntries(heap, after.heap) = {}

\* the store holds two entries that are both similar to one candidate, and
\* two other candidates are similar to each other and to no entry
C30_Witness ==
    /\ \E k \in DOMAIN Candidates : Cardinality(SimilarTo(Candidates[k])) >= 2
    /\ \E k1, k2 \in DOMAIN Candidates :
          /\ k1 # k2
          /\ SimilarTo(Candidates[k1]) = {}
          /\ SimilarTo(Candidates[k2]) = {}
          /\ ContentSimilar(Candidates[k2], Candidates[k1])

====
